---- MODULE Spec2Model ----
(***************************************************************************)
(* A state-machine model of the EVMIX core interpreter                     *)
(* (packages/evmix-core): Word256, Stack, MachineState, TraceCollector,    *)
(* MemoryHost, the opcode handlers and Interpreter.step()/run().           *)
(*                                                                         *)
(* Representation choices                                                  *)
(*  - A Word256 is its 32-byte big-endian image (what toBytes() returns),  *)
(*    so the full 256-bit width is kept: arithmetic is done on the bytes   *)
(*    and the constructor's mask keeps the low 32 bytes.                   *)
(*  - A JavaScript number obtained with Number(word.value) is exact below  *)
(*    HugeNumber; every larger value is represented by HugeNumber itself.  *)
(*    The programs of the model push either small operands or operands     *)
(*    far beyond any typed-array length, so the only thing the model needs *)
(*    to know about such a number is that it is larger than every length   *)
(*    and that `new Uint8Array(n)` raises a RangeError for it.             *)
(*  - A JavaScript exception in flight is the field `exc` of the handler   *)
(*    context; every primitive is the identity once `exc` is set, which is *)
(*    how a throw skips the rest of the handler.                           *)
(***************************************************************************)
EXTENDS Integers, Sequences, FiniteSets, TLC

(***************************************************************************)
(* Bounds of the model (not program constants).                            *)
(***************************************************************************)
\* Numbers at or above this value are not told apart (see above).
HugeNumber == 1048576
\* Longest bytecode drawn from CodeAlphabet (the curated programs are longer).
MaxCodeLen == 2
\* step() calls made on an interpreter that has already halted.
MaxIdleCalls == 2
\* step() calls an interpreter of SpecDeep has behind it when the exploration
\* starts (the stack-filling programs need 1024 of them to fill the stack).
WarmUp == 1020
\* step() calls of the run of one interpreter alone that SpecApart compares
\* with (no program of SpecApart needs as many to halt).
MaxSoloSteps == 32

(***************************************************************************)
(* Program constants.                                                      *)
(***************************************************************************)
WORD_SIZE == 32
MAX_STACK_DEPTH == 1024

(***************************************************************************)
(* Byte-sequence helpers.                                                  *)
(***************************************************************************)
\* A function with domain 1..n as an explicit tuple.
Tup(f, n) == SubSeq(f, 1, n)

Zeros(n) == Tup([k \in 1..n |-> 0], n)

Slice(s, from, to) == SubSeq(s, from, to)

Max(a, b) == IF a >= b THEN a ELSE b

(***************************************************************************)
(* Arithmetic on big-endian byte strings.  The loops are written by        *)
(* halving the index range (the less significant half first, its carry     *)
(* into the more significant half), which computes what the sequential     *)
(* loop computes with a recursion depth of log2 of the length.  Force      *)
(* evaluates an intermediate result before it is passed on, so that the    *)
(* evaluation depth stays the recursion depth.                             *)
(***************************************************************************)
Force(v, e) == IF v = v THEN e ELSE e

\* x[lo..hi] + y[lo..hi] + cin, as <<carry out, bytes>>.
RECURSIVE BigAddRange(_, _, _, _, _)
BigAddRange(x, y, lo, hi, cin) ==
    IF lo = hi
    THEN LET s == x[lo] + y[lo] + cin IN <<s \div 256, <<s % 256>>>>
    ELSE LET mid  == (lo + hi) \div 2
             low  == BigAddRange(x, y, mid + 1, hi, cin)
             high == Force(low, BigAddRange(x, y, lo, mid, low[1]))
         IN  Force(high, <<high[1], high[2] \o low[2]>>)

\* x + y for two byte strings of equal length; one more byte than x.
BigAdd(x, y) ==
    LET r == Force(<<x, y>>, BigAddRange(x, y, 1, Len(x), 0)) IN <<r[1]>> \o r[2]

\* x[lo..hi] * q + cin, as <<carry out, bytes>>.
RECURSIVE BigMulSmallRange(_, _, _, _, _)
BigMulSmallRange(x, q, lo, hi, cin) ==
    IF lo = hi
    THEN LET s == x[lo] * q + cin IN <<s \div 256, <<s % 256>>>>
    ELSE LET mid  == (lo + hi) \div 2
             low  == BigMulSmallRange(x, q, mid + 1, hi, cin)
             high == Force(low, BigMulSmallRange(x, q, lo, mid, low[1]))
         IN  Force(high, <<high[1], high[2] \o low[2]>>)

\* x * q for a byte string x and 0 <= q <= 255; one more byte than x.
BigMulSmall(x, q) ==
    LET r == Force(<<x, q>>, BigMulSmallRange(x, q, 1, Len(x), 0)) IN <<r[1]>> \o r[2]

\* x <= y for two byte strings of equal length.
BigLeq(x, y) ==
    \/ x = y
    \/ \E i \in 1..Len(x) : x[i] < y[i] /\ \A j \in 1..(i - 1) : x[j] = y[j]

\* The bitwise complement of a byte string.
BigNot(x) == Tup([k \in 1..Len(x) |-> 255 - x[k]], Len(x))

\* x - y for two byte strings of equal length with y <= x.
BigSub(x, y) ==
    LET n == Len(x) IN Force(<<x, y>>, SubSeq(BigAdd(SubSeq(BigAdd(x, BigNot(y)), 2, n + 1),
                                     Zeros(n - 1) \o <<1>>), 2, n + 1))

(***************************************************************************)
(* Word256 (types/Word256.ts).                                             *)
(***************************************************************************)
\* The private constructor: value & MAX_UINT256 keeps the low 32 bytes.
Word256(bytes) ==
    IF Len(bytes) >= WORD_SIZE
    THEN Slice(bytes, Len(bytes) - WORD_SIZE + 1, Len(bytes))
    ELSE Zeros(WORD_SIZE - Len(bytes)) \o bytes

zero == Word256(<<>>)

\* Word256.from(BigInt(n)) for a non-negative JavaScript number n < 2^31.
fromNumber(n) ==
    Word256(<<(n \div 16777216) % 256, (n \div 65536) % 256, (n \div 256) % 256, n % 256>>)

one == fromNumber(1)

isZero(w) == \A k \in 1..WORD_SIZE : w[k] = 0

add(a, b) == Force(<<a, b>>, Word256(BigAdd(a, b)))

\* a - b is negative when b > a; masking a negative bigint with MAX_UINT256
\* yields its two's complement, a + ~b + 1.
sub(a, b) == Force(<<a, b>>, Word256(BigAdd(Word256(BigAdd(a, BigNot(b))), one)))

\* The masked sum of a * b[j] * 256^(32-j) over j in lo..hi.
RECURSIVE MulRange(_, _, _, _)
MulRange(a, b, lo, hi) ==
    IF lo = hi
    THEN Word256(BigMulSmall(a, b[lo]) \o Zeros(WORD_SIZE - lo))
    ELSE LET mid  == (lo + hi) \div 2
             high == MulRange(a, b, lo, mid)
             low  == MulRange(a, b, mid + 1, hi)
         IN  Force(<<high, low>>, Word256(BigAdd(high, low)))

\* A word below 2^15 and its value: the product and the quotient of two such
\* words are computed on the values, which gives the same word as the long
\* multiplication and division do.
Short(w) == w[WORD_SIZE - 1] < 128 /\ \A k \in 1..(WORD_SIZE - 2) : w[k] = 0
ShortValue(w) == w[WORD_SIZE - 1] * 256 + w[WORD_SIZE]

mul(a, b) ==
    IF Short(a) /\ Short(b) THEN fromNumber(ShortValue(a) * ShortValue(b))
    ELSE Force(<<a, b>>, MulRange(a, b, 1, WORD_SIZE))

\* The largest q in lo..hi with q * b <= cur (cur and q * b have 33 bytes).
RECURSIVE DivDigit(_, _, _, _)
DivDigit(cur, b, lo, hi) ==
    IF lo = hi THEN lo
    ELSE LET mid == (lo + hi + 1) \div 2
         IN  IF BigLeq(BigMulSmall(b, mid), cur)
             THEN DivDigit(cur, b, mid, hi)
             ELSE DivDigit(cur, b, lo, mid - 1)

\* Long division in base 256 of the digits a[lo..hi], most significant first,
\* entered with remainder rem < b: <<quotient digits, remainder>>.
RECURSIVE DivRange(_, _, _, _, _)
DivRange(a, b, lo, hi, rem) ==
    IF lo = hi
    THEN LET cur == rem \o <<a[lo]>>
             q   == DivDigit(cur, b, 0, 255)
         IN  Force(q, <<(<<q>>), SubSeq(BigSub(cur, BigMulSmall(b, q)), 2, WORD_SIZE + 1)>>)
    ELSE LET mid   == (lo + hi) \div 2
             first == DivRange(a, b, lo, mid, rem)
             rest  == Force(first, DivRange(a, b, mid + 1, hi, first[2]))
         IN  Force(rest, <<first[1] \o rest[1], rest[2]>>)

div(a, b) ==
    IF isZero(b) THEN zero
    ELSE IF Short(a) /\ Short(b) THEN fromNumber(ShortValue(a) \div ShortValue(b))
    ELSE Force(<<a, b>>, Word256(DivRange(a, b, 1, WORD_SIZE, zero)[1]))

\* Number(w.value): exact below HugeNumber, HugeNumber for everything above.
Number(w) ==
    LET v == w[WORD_SIZE - 2] * 65536 + w[WORD_SIZE - 1] * 256 + w[WORD_SIZE]
    IN  IF (\A k \in 1..(WORD_SIZE - 3) : w[k] = 0) /\ v < HugeNumber
        THEN v ELSE HugeNumber

(***************************************************************************)
(* Opcode table (opcodes/Opcode.ts).                                       *)
(***************************************************************************)
Opcode ==
    [STOP |-> 0, ADD |-> 1, MUL |-> 2, SUB |-> 3, DIV |-> 4, SDIV |-> 5, MOD |-> 6,
     SMOD |-> 7, ADDMOD |-> 8, MULMOD |-> 9, EXP |-> 10, SIGNEXTEND |-> 11,
     LT |-> 16, GT |-> 17, SLT |-> 18, SGT |-> 19, EQ |-> 20, ISZERO |-> 21,
     AND |-> 22, OR |-> 23, XOR |-> 24, NOT |-> 25, BYTE |-> 26, SHL |-> 27,
     SHR |-> 28, SAR |-> 29, KECCAK256 |-> 32,
     ADDRESS |-> 48, BALANCE |-> 49, ORIGIN |-> 50, CALLER |-> 51, CALLVALUE |-> 52,
     CALLDATALOAD |-> 53, CALLDATASIZE |-> 54, CALLDATACOPY |-> 55, CODESIZE |-> 56,
     CODECOPY |-> 57, GASPRICE |-> 58,
     POP |-> 80, MLOAD |-> 81, MSTORE |-> 82, MSTORE8 |-> 83, SLOAD |-> 84,
     SSTORE |-> 85, JUMP |-> 86, JUMPI |-> 87, PC |-> 88, MSIZE |-> 89, GAS |-> 90,
     JUMPDEST |-> 91, PUSH1 |-> 96, PUSH32 |-> 127, DUP1 |-> 128, DUP16 |-> 143,
     SWAP1 |-> 144, SWAP16 |-> 159, LOG0 |-> 160, LOG1 |-> 161, LOG2 |-> 162,
     LOG3 |-> 163, LOG4 |-> 164, RETURN |-> 243, REVERT |-> 253, INVALID |-> 254]

isPushOpcode(opcode) == opcode >= 96 /\ opcode <= 127

getPushBytes(opcode) == IF ~isPushOpcode(opcode) THEN 0 ELSE opcode - 95

\* The mnemonic recorded in OpcodeStart.  A byte that is no member of the enum
\* is rendered UNKNOWN(0x..); the model renders the byte in decimal.
getOpcodeName(opcode) ==
    IF opcode >= 96 /\ opcode <= 127 THEN "PUSH" \o ToString(opcode - 95)
    ELSE IF opcode >= 128 /\ opcode <= 143 THEN "DUP" \o ToString(opcode - 127)
    ELSE IF opcode >= 144 /\ opcode <= 159 THEN "SWAP" \o ToString(opcode - 143)
    ELSE IF \E n \in DOMAIN Opcode : Opcode[n] = opcode
         THEN CHOOSE n \in DOMAIN Opcode : Opcode[n] = opcode
         ELSE "UNKNOWN(" \o ToString(opcode) \o ")"

(***************************************************************************)
(* Halt reasons (state/HaltReason.ts).                                     *)
(***************************************************************************)
HaltReason ==
    [STOP |-> "STOP", RETURN |-> "RETURN", REVERT |-> "REVERT",
     OUT_OF_GAS |-> "OUT_OF_GAS", INVALID_OPCODE |-> "INVALID_OPCODE",
     STACK_UNDERFLOW |-> "STACK_UNDERFLOW", STACK_OVERFLOW |-> "STACK_OVERFLOW",
     INVALID_JUMP |-> "INVALID_JUMP", INVALID_INSTRUCTION |-> "INVALID_INSTRUCTION"]

\* The value of the optional field haltReason before halt() has set it.
undefined == "undefined"

(***************************************************************************)
(* The handler context.  A handler works on                                *)
(*   state : the MachineState   stack : the Stack's items (bottom first)   *)
(*   trace : the TraceCollector host  : the Host it was constructed with   *)
(* and `exc` is the message of the exception being thrown, "none" if none. *)
(* Ok(c) is "no exception in flight": every statement after a throw is     *)
(* skipped, so every primitive below is the identity unless Ok(c).         *)
(***************************************************************************)
Ok(c) == c.exc = "none"

throw(c, message) == IF Ok(c) THEN [c EXCEPT !.exc = message] ELSE c

(***************************************************************************)
(* Stack (state/Stack.ts).  Errors are StackError with these messages.     *)
(***************************************************************************)
StackOverflowMsg == "Stack overflow"
StackUnderflowMsg == "Stack underflow"
StackIndexMsg == "Stack index out of bounds"

InvalidSwapMsg == "Invalid swap depth"
InvalidDupMsg == "Invalid dup depth"

\* error instanceof StackError
isStackError(message) ==
    message \in {StackOverflowMsg, StackUnderflowMsg, StackIndexMsg,
                 InvalidSwapMsg, InvalidDupMsg}

\* The test for 'flow', which the underflow message passes as well.
includesFlow(message) == message \in {StackOverflowMsg, StackUnderflowMsg}

\* error.message.includes('overflow')
includesOverflow(message) == message = StackOverflowMsg

\* push() without the test of the depth.
pushUnchecked(c, value) ==
    IF ~Ok(c) THEN c ELSE [c EXCEPT !.stack = Append(@, value)]

push(c, value) ==
    IF ~Ok(c) THEN c
    ELSE IF Len(c.stack) >= MAX_STACK_DEPTH THEN throw(c, StackOverflowMsg)
    ELSE [c EXCEPT !.stack = Append(@, value)]

\* pop(): the stack after the call ...
pop(c) ==
    IF ~Ok(c) THEN c
    ELSE IF Len(c.stack) = 0 THEN throw(c, StackUnderflowMsg)
    ELSE [c EXCEPT !.stack = SubSeq(@, 1, Len(@) - 1)]

\* ... and the value it returns (unused when it throws).
popped(c) == IF Len(c.stack) = 0 THEN zero ELSE c.stack[Len(c.stack)]

\* peekAt(depth): throws when depth is out of bounds; the value it returns.
peekAt(c, depth) ==
    IF ~Ok(c) THEN c
    ELSE IF depth < 0 \/ depth >= Len(c.stack) THEN throw(c, StackIndexMsg)
    ELSE c

peekedAt(c, depth) ==
    IF depth < 0 \/ depth >= Len(c.stack) THEN zero ELSE c.stack[Len(c.stack) - depth]

swap(c, n) ==
    IF ~Ok(c) THEN c
    ELSE IF n < 1 \/ n > 16 THEN throw(c, InvalidSwapMsg)
    ELSE IF Len(c.stack) < n + 1 THEN throw(c, StackUnderflowMsg)
    ELSE LET topIndex  == Len(c.stack)
             swapIndex == Len(c.stack) - n
         IN  [c EXCEPT !.stack = [@ EXCEPT ![topIndex] = c.stack[swapIndex],
                                           ![swapIndex] = c.stack[topIndex]]]

\* dup(n) that copies the top item whatever n is.
dupTop(c, n) ==
    IF ~Ok(c) THEN c
    ELSE IF n < 1 \/ n > 16 THEN throw(c, InvalidDupMsg)
    ELSE IF Len(c.stack) < n THEN throw(c, StackUnderflowMsg)
    ELSE IF Len(c.stack) >= MAX_STACK_DEPTH THEN throw(c, StackOverflowMsg)
    ELSE [c EXCEPT !.stack = Append(@, c.stack[Len(c.stack)])]

dup(c, n) ==
    IF ~Ok(c) THEN c
    ELSE IF n < 1 \/ n > 16 THEN throw(c, InvalidDupMsg)
    ELSE IF Len(c.stack) < n THEN throw(c, StackUnderflowMsg)
    ELSE IF Len(c.stack) >= MAX_STACK_DEPTH THEN throw(c, StackOverflowMsg)
    ELSE [c EXCEPT !.stack = Append(@, c.stack[Len(c.stack) - n + 1])]

(***************************************************************************)
(* MachineState (state/MachineState.ts).                                   *)
(***************************************************************************)
MachineState(initialGas) ==
    [pc |-> 0, gasRemaining |-> initialGas, stack |-> <<>>, memory |-> <<>>,
     returnData |-> <<>>, halted |-> FALSE, haltReason |-> undefined]

halt(c, reason) ==
    IF ~Ok(c) THEN c
    ELSE [c EXCEPT !.state.halted = TRUE, !.state.haltReason = reason]

\* chargeGas that subtracts before it compares.
chargeGasSubtractFirst(c, amount) ==
    IF ~Ok(c) THEN c
    ELSE IF c.state.gasRemaining < amount
         THEN [halt(c, HaltReason.OUT_OF_GAS) EXCEPT
                  !.state.gasRemaining = @ - amount, !.exc = "Out of gas"]
         ELSE [c EXCEPT !.state.gasRemaining = @ - amount]

OutOfGasMsg == "Out of gas"

chargeGas(c, amount) ==
    IF ~Ok(c) THEN c
    ELSE IF c.state.gasRemaining < amount
         THEN throw(halt(c, HaltReason.OUT_OF_GAS), OutOfGasMsg)
         ELSE [c EXCEPT !.state.gasRemaining = @ - amount]

\* The required size taken as it is, not rounded up to a word.
RoundUpNot(n) == n

\* Math.ceil(requiredSize / 32) * 32
RoundUp32(n) == ((n + 31) \div 32) * 32

\* The quadratic memory cost of a memory of `words` words.
MemoryCost(words) == words * 3 + (words * words) \div 512

\* expandMemory(offset, length): the value it returns ...
expansionCost(c, offset, length) ==
    IF length = 0 THEN 0
    ELSE IF offset + length <= Len(c.state.memory) THEN 0
    ELSE MemoryCost(RoundUp32(offset + length) \div 32)
         - MemoryCost(Len(c.state.memory) \div 32)

\* ... and what it does to the state: `new Uint8Array(newSize)` raises a
\* RangeError when newSize is no valid typed-array length, and otherwise the
\* old bytes are copied into the zero-filled new array.
expandMemory(c, offset, length) ==
    IF ~Ok(c) THEN c
    ELSE IF length = 0 THEN c
    ELSE IF offset + length <= Len(c.state.memory) THEN c
    ELSE IF RoundUp32(offset + length) >= HugeNumber THEN throw(c, "RangeError")
    ELSE [c EXCEPT !.state.memory =
              @ \o Zeros(RoundUp32(offset + length) - Len(c.state.memory))]

\* readMemory(offset, length): its effect (it expands when needed, free of
\* charge) and the bytes it returns.
readMemory(c, offset, length) ==
    IF ~Ok(c) THEN c
    ELSE IF length = 0 THEN c
    ELSE IF offset + length > Len(c.state.memory) THEN expandMemory(c, offset, length)
    ELSE c

memoryRead(c, offset, length) ==
    IF length = 0 \/ offset + length > Len(c.state.memory) THEN <<>>
    ELSE SubSeq(c.state.memory, offset + 1, offset + length)

\* writeMemory(offset, data)
writeMemory(c, offset, data) ==
    IF ~Ok(c) THEN c
    ELSE IF Len(data) = 0 THEN c
    ELSE LET c1 == IF offset + Len(data) > Len(c.state.memory)
                   THEN expandMemory(c, offset, Len(data)) ELSE c
         IN  IF ~Ok(c1) THEN c1
             ELSE [c1 EXCEPT !.state.memory =
                      [k \in 1..Len(@) |->
                          IF k > offset /\ k <= offset + Len(data)
                          THEN data[k - offset] ELSE @[k]]]

(***************************************************************************)
(* TraceEventBuilder and TraceCollector (trace/TraceEvent.ts,              *)
(* trace/TraceCollector.ts).  A builder call in the source is              *)
(*   TraceEventBuilder.x(trace.getNextIndex(), state.pc,                   *)
(*                       state.gasRemaining, ...)                          *)
(* so each builder below takes the context and reads the three from it.    *)
(* Words, addresses and byte strings are rendered in hexadecimal and gas   *)
(* amounts in decimal by the source; the renderings are one-to-one, and    *)
(* the model keeps the rendered value itself.                              *)
(***************************************************************************)
TraceCollector == [events |-> <<>>, nextIndex |-> 0]

\* getNextIndex(): returns nextIndex (read it before) and increments it.
getNextIndex(c) == IF ~Ok(c) THEN c ELSE [c EXCEPT !.trace.nextIndex = @ + 1]

\* record(event) that puts the event in front of the others.
recordInFront(c, event) == IF ~Ok(c) THEN c ELSE [c EXCEPT !.trace.events = <<event>> \o @]

\* record(event)
record(c, event) == IF ~Ok(c) THEN c ELSE [c EXCEPT !.trace.events = Append(@, event)]

BaseEvent(c, type) ==
    [type |-> type, index |-> c.trace.nextIndex, pc |-> c.state.pc,
     gasRemaining |-> c.state.gasRemaining]

opcodeStart(c, opcode, name) ==
    [type |-> "opcode.start", index |-> c.trace.nextIndex, pc |-> c.state.pc,
     gasRemaining |-> c.state.gasRemaining, opcode |-> opcode, opcodeName |-> name]

stackPush(c, value) ==
    [type |-> "stack.push", index |-> c.trace.nextIndex, pc |-> c.state.pc,
     gasRemaining |-> c.state.gasRemaining, value |-> value]

stackPop(c, value) ==
    [type |-> "stack.pop", index |-> c.trace.nextIndex, pc |-> c.state.pc,
     gasRemaining |-> c.state.gasRemaining, value |-> value]

memoryWriteEvent(c, offset, data) ==
    [type |-> "memory.write", index |-> c.trace.nextIndex, pc |-> c.state.pc,
     gasRemaining |-> c.state.gasRemaining, offset |-> offset, data |-> data]

memoryReadEvent(c, offset, length) ==
    [type |-> "memory.read", index |-> c.trace.nextIndex, pc |-> c.state.pc,
     gasRemaining |-> c.state.gasRemaining, offset |-> offset, length |-> length]

storageRead(c, address, key, value) ==
    [type |-> "storage.read", index |-> c.trace.nextIndex, pc |-> c.state.pc,
     gasRemaining |-> c.state.gasRemaining, address |-> address, key |-> key,
     value |-> value]

storageWrite(c, address, key, value) ==
    [type |-> "storage.write", index |-> c.trace.nextIndex, pc |-> c.state.pc,
     gasRemaining |-> c.state.gasRemaining, address |-> address, key |-> key,
     value |-> value]

gasCharge(c, amount, reason) ==
    [type |-> "gas.charge", index |-> c.trace.nextIndex, pc |-> c.state.pc,
     gasRemaining |-> c.state.gasRemaining, amount |-> amount, reason |-> reason]

jump(c, from, to, conditional, taken) ==
    [type |-> "jump", index |-> c.trace.nextIndex, pc |-> c.state.pc,
     gasRemaining |-> c.state.gasRemaining, from |-> from, to |-> to,
     conditional |-> conditional, taken |-> taken]

haltEvent(c, reason) ==
    [type |-> "halt", index |-> c.trace.nextIndex, pc |-> c.state.pc,
     gasRemaining |-> c.state.gasRemaining, reason |-> reason]

\* const e = TraceEventBuilder.x(trace.getNextIndex(), ...); trace.record(e)
emit(c, event) == record(getNextIndex(c), event)

\* TraceEventBuilder has no member `log`: the call evaluates its arguments
\* (trace.getNextIndex() among them) and then raises a TypeError.
logEvent(c) == throw(getNextIndex(c), "TypeError")

(***************************************************************************)
(* MemoryHost (host/MemoryHost.ts).  The storage map is keyed by the       *)
(* string address.toHex() + ":" + key.toHex(), one-to-one with the pair.   *)
(***************************************************************************)
AddressZero == 0

MemoryHost(address) == [storage |-> <<>>, logs |-> <<>>, address |-> address]

\* A storage key that leaves the address out.
storageKeyOfKey(address, key) == <<AddressZero, key>>

storageKey(address, key) == <<address, key>>

\* sload(address, key): this.storage.get(storageKey) || Word256.zero()
sload(c, address, key) ==
    IF storageKey(address, key) \in DOMAIN c.host.storage
    THEN c.host.storage[storageKey(address, key)] ELSE zero

sstore(c, address, key, value) ==
    IF ~Ok(c) THEN c
    ELSE IF isZero(value)
         THEN [c EXCEPT !.host.storage =
                  [k \in (DOMAIN @) \ {storageKey(address, key)} |-> @[k]]]
         ELSE [c EXCEPT !.host.storage =
                  [k \in (DOMAIN @) \cup {storageKey(address, key)} |->
                      IF k = storageKey(address, key) THEN value ELSE @[k]]]

hostLog(c, entry) == IF ~Ok(c) THEN c ELSE [c EXCEPT !.host.logs = Append(@, entry)]

getAddress(c) == c.host.address

(***************************************************************************)
(* Statement patterns shared by the opcode handlers.  Do(c, Rest) is the  *)
(* statement that left the context c followed by the statements Rest.      *)
(***************************************************************************)
Do(c, Rest(_)) == Rest(c)

\* trace.record(TraceEventBuilder.gasCharge(trace.getNextIndex(), ...))
emitGasCharge(c, amount, reason) == emit(c, gasCharge(c, amount, reason))
emitStackPop(c, value) == emit(c, stackPop(c, value))
emitStackPush(c, value) == emit(c, stackPush(c, value))
emitMemoryWrite(c, offset, data) == emit(c, memoryWriteEvent(c, offset, data))
emitMemoryRead(c, offset, length) == emit(c, memoryReadEvent(c, offset, length))
emitStorageRead(c, address, key, value) == emit(c, storageRead(c, address, key, value))
emitStorageWrite(c, address, key, value) == emit(c, storageWrite(c, address, key, value))
\* A Jump event that says the jump was not taken.
emitJumpUntaken(c, to, conditional, taken) ==
    emit(c, jump(c, c.state.pc, to, conditional, FALSE))

emitJump(c, to, conditional, taken) == emit(c, jump(c, c.state.pc, to, conditional, taken))
emitHaltEvent(c, reason) == emit(c, haltEvent(c, reason))
emitOpcodeStart(c, opcode) == emit(c, opcodeStart(c, opcode, getOpcodeName(opcode)))

\* state.chargeGas(amount); trace.record(gasCharge(..., amount, reason))
charge(c, amount, reason) == emitGasCharge(chargeGas(c, amount), amount, reason)

\* const v = stack.pop(); trace.record(stackPop(..., v))
popTraced(c) == emitStackPop(pop(c), popped(c))

\* stack.push(v); trace.record(stackPush(..., v))
pushTraced(c, value) == emitStackPush(push(c, value), value)

\* state.pc += n
\* The program counter moved although an exception is in flight.
advanceAnyway(c, n) == [c EXCEPT !.state.pc = @ + n]

advance(c, n) == IF ~Ok(c) THEN c ELSE [c EXCEPT !.state.pc = @ + n]

\* if (cost > 0n) { state.chargeGas(cost); trace.record(gasCharge(...)) }
chargeExpansion(c, cost, reason) == IF Ok(c) /\ cost > 0 THEN charge(c, cost, reason) ELSE c

\* const cost = state.expandMemory(offset, length), then the above.
expandAndCharge(c, offset, length, reason) ==
    chargeExpansion(expandMemory(c, offset, length),
                    expansionCost(c, offset, length), reason)

(***************************************************************************)
(* opcodes/system.ts, opcodes/arithmetic.ts                                *)
(***************************************************************************)
executeStop(c) == halt(c, HaltReason.STOP)

\* The operations with the operand popped first on the left.
computeTopFirst(name, a, b) ==
    CASE name = "ADD" -> add(b, a)
      [] name = "MUL" -> mul(b, a)
      [] name = "SUB" -> sub(b, a)
      [] name = "DIV" -> div(b, a)

\* The operation a handler computes from its operands, a popped second.
compute(name, a, b) ==
    CASE name = "ADD" -> add(a, b)
      [] name = "MUL" -> mul(a, b)
      [] name = "SUB" -> sub(a, b)
      [] name = "DIV" -> div(a, b)

\* The common shape of the four arithmetic handlers: b is popped first.
Arithmetic(c, gas, name) ==
    Do(charge(c, gas, name), LAMBDA c1 :
    Do(popTraced(c1), LAMBDA c2 :
    Do(popTraced(c2), LAMBDA c3 :
    IF ~Ok(c3) THEN c3
    ELSE advance(pushTraced(c3, compute(name, popped(c2), popped(c1))), 1))))

executeAdd(c) == Arithmetic(c, 3, "ADD")
executeMul(c) == Arithmetic(c, 5, "MUL")
executeSub(c) == Arithmetic(c, 3, "SUB")
executeDiv(c) == Arithmetic(c, 5, "DIV")

(***************************************************************************)
(* opcodes/stack.ts                                                        *)
(***************************************************************************)
executePOP(c) == advance(popTraced(charge(c, 2, "POP")), 1)

executeDUP(c, opcode) ==
    Do(charge(c, 3, "DUP" \o ToString(opcode - 127)), LAMBDA c1 :
    advance(emitStackPush(dup(peekAt(c1, opcode - 127 - 1), opcode - 127),
                          peekedAt(c1, opcode - 127 - 1)), 1))

executeSWAP(c, opcode) ==
    advance(swap(charge(c, 3, "SWAP" \o ToString(opcode - 143)), opcode - 143), 1)

(***************************************************************************)
(* opcodes/memory.ts                                                       *)
(***************************************************************************)
\* The word pushed before the memory.read event is recorded.
loadWordPushFirst(c, offset) ==
    Do(readMemory(c, offset, 32), LAMBDA c1 :
    Do(pushTraced(c1, Word256(memoryRead(c1, offset, 32)
                              \o Zeros(32 - Len(memoryRead(c1, offset, 32))))),
       LAMBDA c2 : emitMemoryRead(c2, offset, 32)))

\* data = state.readMemory(offset, 32), the memory.read event, and the push
\* of the word read (zero-padded on the right).
loadWord(c, offset) ==
    Do(readMemory(c, offset, 32), LAMBDA c1 :
    Do(emitMemoryRead(c1, offset, 32), LAMBDA c2 :
    IF ~Ok(c2) THEN c2
    ELSE pushTraced(c2, Word256(memoryRead(c1, offset, 32)
                                \o Zeros(32 - Len(memoryRead(c1, offset, 32)))))))

executeMLOAD(c) ==
    Do(charge(c, 3, "MLOAD"), LAMBDA c1 :
    Do(popTraced(c1), LAMBDA c2 :
    IF ~Ok(c2) THEN c2
    ELSE Do(expandAndCharge(c2, Number(popped(c1)), 32, "MLOAD memory expansion"),
             LAMBDA c3 : advance(loadWord(c3, Number(popped(c1))), 1))))

\* state.writeMemory(offset, bytes) and the memory.write event.
store(c, offset, bytes) == emitMemoryWrite(writeMemory(c, offset, bytes), offset, bytes)

executeMSTORE(c) ==
    Do(charge(c, 3, "MSTORE"), LAMBDA c1 :
    Do(popTraced(c1), LAMBDA c2 :
    Do(popTraced(c2), LAMBDA c3 :
    IF ~Ok(c3) THEN c3
    ELSE Do(expandAndCharge(c3, Number(popped(c1)), 32, "MSTORE memory expansion"),
             LAMBDA c4 : advance(store(c4, Number(popped(c1)), popped(c2)), 1)))))

executeMSTORE8(c) ==
    Do(charge(c, 3, "MSTORE8"), LAMBDA c1 :
    Do(popTraced(c1), LAMBDA c2 :
    Do(popTraced(c2), LAMBDA c3 :
    IF ~Ok(c3) THEN c3
    ELSE Do(expandAndCharge(c3, Number(popped(c1)), 1, "MSTORE8 memory expansion"),
             LAMBDA c4 :
             advance(store(c4, Number(popped(c1)), <<popped(c2)[WORD_SIZE]>>), 1)))))

executeMSIZE(c) ==
    Do(charge(c, 2, "MSIZE"), LAMBDA c1 :
    IF ~Ok(c1) THEN c1
    ELSE advance(pushTraced(c1, fromNumber(Len(c1.state.memory))), 1))

(***************************************************************************)
(* opcodes/data.ts                                                         *)
(***************************************************************************)
\* The bytes the calldata has from offset on, and none for what lies beyond.
calldataBytesCut(calldata, offset, length) ==
    IF offset >= Len(calldata) THEN <<>>
    ELSE SubSeq(calldata, offset + 1,
                IF offset + length <= Len(calldata) THEN offset + length ELSE Len(calldata))

\* data[i] = offset + i < calldata.length ? calldata[offset + i] : 0
calldataBytes(calldata, offset, length) ==
    Tup([i \in 1..length |->
            IF offset + i - 1 < Len(calldata) THEN calldata[offset + i] ELSE 0], length)

executeCALLDATALOAD(c, calldata) ==
    Do(charge(c, 3, "CALLDATALOAD"), LAMBDA c1 :
    Do(popTraced(c1), LAMBDA c2 :
    IF ~Ok(c2) THEN c2
    ELSE advance(pushTraced(c2, Word256(calldataBytes(calldata, Number(popped(c1)), 32))),
                 1)))

executeCALLDATASIZE(c, calldata) ==
    Do(charge(c, 2, "CALLDATASIZE"), LAMBDA c1 :
    IF ~Ok(c1) THEN c1
    ELSE advance(pushTraced(c1, fromNumber(Len(calldata))), 1))

\* Math.ceil(length / 32) * 3
copyGas(length) == ((length + 31) \div 32) * 3

\* What CALLDATACOPY does once its operands are popped.
copyCalldata(c, calldata, destOffset, offset, length) ==
    Do(IF copyGas(length) > 0
        THEN charge(c, copyGas(length), "CALLDATACOPY copy cost") ELSE c, LAMBDA c1 :
    Do(IF Ok(c1) /\ length > 0
        THEN expandAndCharge(c1, destOffset, length, "CALLDATACOPY memory expansion")
        ELSE c1, LAMBDA c2 :
    IF Ok(c2) /\ length > 0
    THEN store(c2, destOffset, calldataBytes(calldata, offset, length))
    ELSE c2))

executeCALLDATACOPY(c, calldata) ==
    Do(charge(c, 3, "CALLDATACOPY"), LAMBDA c1 :
    Do(popTraced(c1), LAMBDA c2 :
    Do(popTraced(c2), LAMBDA c3 :
    Do(popTraced(c3), LAMBDA c4 :
    IF ~Ok(c4) THEN c4
    ELSE advance(copyCalldata(c4, calldata, Number(popped(c1)), Number(popped(c2)),
                              Number(popped(c3))), 1)))))

\* state.returnData = state.readMemory(offset, length)
setReturnData(c, offset, length) ==
    Do(readMemory(c, offset, length), LAMBDA c1 :
    IF ~Ok(c1) THEN c1
    ELSE [c1 EXCEPT !.state.returnData = memoryRead(c1, offset, length)])

\* The return data set before the expansion is paid for.
returnDataFirst(c, offset, length, name) ==
    IF length > 0
    THEN chargeExpansion(setReturnData(c, offset, length),
                         expansionCost(c, offset, length), name \o " memory expansion")
    ELSE [c EXCEPT !.state.returnData = <<>>]

\* What RETURN and REVERT do once their operands are popped.
returnData(c, offset, length, name) ==
    IF length > 0
    THEN setReturnData(expandAndCharge(c, offset, length, name \o " memory expansion"),
                       offset, length)
    ELSE [c EXCEPT !.state.returnData = <<>>]

\* The common shape of RETURN and REVERT.
ReturnOrRevert(c, reason, name) ==
    Do(popTraced(c), LAMBDA c1 :
    Do(popTraced(c1), LAMBDA c2 :
    IF ~Ok(c2) THEN c2
    ELSE halt(returnData(c2, Number(popped(c)), Number(popped(c1)), name), reason)))

executeRETURN(c) == ReturnOrRevert(c, HaltReason.RETURN, "RETURN")
executeREVERT(c) == ReturnOrRevert(c, HaltReason.REVERT, "REVERT")

(***************************************************************************)
(* opcodes/controlflow.ts                                                  *)
(***************************************************************************)
executePC(c) ==
    Do(charge(c, 2, "PC"), LAMBDA c1 :
    IF ~Ok(c1) THEN c1
    ELSE advance(pushTraced(c1, fromNumber(c1.state.pc)), 1))

executeJUMPDEST(c) == advance(charge(c, 1, "JUMPDEST"), 1)

\* The validation both jumps end with: halt with INVALID_JUMP when the
\* destination is outside the bytecode or no valid JUMPDEST, else jump.
\* A jump that only looks at the length of the bytecode.
performJumpAnywhere(c, destPC, bytecode, validJumpDests) ==
    IF ~Ok(c) THEN c
    ELSE IF destPC >= Len(bytecode) THEN halt(c, HaltReason.INVALID_JUMP)
    ELSE [c EXCEPT !.state.pc = destPC]

performJump(c, destPC, bytecode, validJumpDests) ==
    IF ~Ok(c) THEN c
    ELSE IF destPC >= Len(bytecode) THEN halt(c, HaltReason.INVALID_JUMP)
    ELSE IF destPC \notin validJumpDests THEN halt(c, HaltReason.INVALID_JUMP)
    ELSE [c EXCEPT !.state.pc = destPC]

executeJUMP(c, bytecode, validJumpDests) ==
    Do(charge(c, 8, "JUMP"), LAMBDA c1 :
    Do(popTraced(c1), LAMBDA c2 :
    IF ~Ok(c2) THEN c2
    ELSE performJump(emitJump(c2, Number(popped(c1)), FALSE, TRUE),
                     Number(popped(c1)), bytecode, validJumpDests)))

\* A JUMPI that validates the destination before it looks at the condition.
jumpIfValidated(c, shouldJump, destPC, bytecode, validJumpDests) ==
    Do(emitJump(c, destPC, TRUE, shouldJump), LAMBDA c1 :
    IF destPC >= Len(bytecode) \/ destPC \notin validJumpDests
    THEN halt(c1, HaltReason.INVALID_JUMP)
    ELSE IF ~shouldJump THEN advance(c1, 1)
    ELSE [c1 EXCEPT !.state.pc = destPC])

\* What JUMPI does once condition and destination are popped.
jumpIf(c, shouldJump, destPC, bytecode, validJumpDests) ==
    Do(emitJump(c, destPC, TRUE, shouldJump), LAMBDA c1 :
    IF ~shouldJump THEN advance(c1, 1)
    ELSE performJump(c1, destPC, bytecode, validJumpDests))

executeJUMPI(c, bytecode, validJumpDests) ==
    Do(charge(c, 10, "JUMPI"), LAMBDA c1 :
    Do(popTraced(c1), LAMBDA c2 :
    Do(popTraced(c2), LAMBDA c3 :
    IF ~Ok(c3) THEN c3
    ELSE jumpIf(c3, ~isZero(popped(c1)), Number(popped(c2)), bytecode, validJumpDests))))

\* The scan of buildJumpDestinations over the positions lo..hi (0-based),
\* entered with the loop variable at i: the destinations it adds and the
\* loop variable it leaves.  A position the loop variable has jumped over
\* (PUSH data) is not looked at.
RECURSIVE scanJumpDestinations(_, _, _, _)
scanJumpDestinations(bytecode, i, lo, hi) ==
    IF lo = hi
    THEN IF i # lo THEN <<{}, i>>
         ELSE LET opcode == bytecode[lo + 1]
              IN  IF opcode = 91 THEN <<{lo}, lo + 1>>
                  ELSE IF opcode >= 96 /\ opcode <= 127
                       THEN <<{}, lo + 1 + (opcode - 95)>>
                       ELSE <<{}, lo + 1>>
    ELSE LET mid   == (lo + hi) \div 2
             left  == scanJumpDestinations(bytecode, i, lo, mid)
             right == Force(left, scanJumpDestinations(bytecode, left[2], mid + 1, hi))
         IN  Force(right, <<left[1] \cup right[1], right[2]>>)

\* Every 0x5b byte taken for a destination, PUSH data included.
everyJumpDestByte(bytecode) == {d \in 0..(Len(bytecode) - 1) : bytecode[d + 1] = 91}

\* A scan that begins at position 1.
jumpDestinationsFromOne(bytecode) ==
    IF Len(bytecode) <= 1 THEN {}
    ELSE scanJumpDestinations(bytecode, 1, 1, Len(bytecode) - 1)[1]

buildJumpDestinations(bytecode) ==
    IF Len(bytecode) = 0 THEN {}
    ELSE scanJumpDestinations(bytecode, 0, 0, Len(bytecode) - 1)[1]

(***************************************************************************)
(* opcodes/storage.ts                                                      *)
(***************************************************************************)
\* What SLOAD does with the key it popped: no pop or push event.
\* An SLOAD that reads the slot of the zero key whatever key it popped.
loadSlotZeroKey(c, key) ==
    Do(emitStorageRead(c, getAddress(c), key, sload(c, getAddress(c), zero)), LAMBDA c1 :
    advance(push(c1, sload(c, getAddress(c), zero)), 1))

loadSlot(c, key) ==
    Do(emitStorageRead(c, getAddress(c), key, sload(c, getAddress(c), key)), LAMBDA c1 :
    advance(push(c1, sload(c, getAddress(c), key)), 1))

executeSLOAD(c) ==
    Do(chargeGas(c, 200), LAMBDA c1 :
    Do(pop(c1), LAMBDA c2 :
    IF ~Ok(c2) THEN c2 ELSE loadSlot(c2, popped(c1))))

\* let gasCost = 5000n; if (currentValue.isZero() && !value.isZero()) gasCost = 20000n
\* A gas cost of SSTORE that does not look at the slot.
sstoreGasFlat(currentValue, value) == 5000

sstoreGas(currentValue, value) ==
    IF isZero(currentValue) /\ ~isZero(value) THEN 20000 ELSE 5000

\* What SSTORE does with the key and the value it popped.
storeSlot(c, key, value) ==
    Do(chargeGas(c, sstoreGas(sload(c, getAddress(c), key), value)), LAMBDA c1 :
    Do(emitStorageWrite(c1, getAddress(c1), key, value), LAMBDA c2 :
    advance(sstore(c2, getAddress(c2), key, value), 1)))

executeSSTORE(c) ==
    Do(pop(c), LAMBDA c1 :
    Do(pop(c1), LAMBDA c2 :
    IF ~Ok(c2) THEN c2 ELSE storeSlot(c2, popped(c), popped(c1))))

(***************************************************************************)
(* opcodes/logging.ts: the five handlers differ in the number of topics    *)
(* they pop.                                                               *)
(***************************************************************************)
RECURSIVE popTopics(_, _)
popTopics(c, n) == IF n = 0 THEN c ELSE popTopics(pop(c), n - 1)

\* The topics popTopics(c, n) pops, topic0 first.
poppedTopics(c, n) ==
    IF Len(c.stack) < n THEN <<>>
    ELSE Tup([k \in 1..n |-> c.stack[Len(c.stack) - k + 1]], n)

\* host.log({ address, topics, data }) and the call of TraceEventBuilder.log
writeLog(c, topics, data) ==
    logEvent(hostLog(c, [address |-> getAddress(c), topics |-> topics, data |-> data]))

\* What LOGn does once offset, length and topics are popped; c is the
\* context before the expansion.
logData(c, n, offset, length, topics) ==
    Do(expandMemory(c, offset, length), LAMBDA c1 :
    Do(chargeGas(c1, 375 + n * 375 + 8 * length + expansionCost(c, offset, length)),
        LAMBDA c2 :
    Do(readMemory(c2, offset, length), LAMBDA c3 :
    IF ~Ok(c3) THEN c3
    ELSE advance(writeLog(c3, topics, memoryRead(c3, offset, length)), 1))))

executeLOG(c, n) ==
    Do(pop(c), LAMBDA c1 :
    Do(pop(c1), LAMBDA c2 :
    Do(popTopics(c2, n), LAMBDA c3 :
    IF ~Ok(c3) THEN c3
    ELSE logData(c3, n, Number(popped(c)), Number(popped(c1)), poppedTopics(c2, n)))))

executeLOG0(c) == executeLOG(c, 0)
executeLOG1(c) == executeLOG(c, 1)
executeLOG2(c) == executeLOG(c, 2)
executeLOG3(c) == executeLOG(c, 3)
executeLOG4(c) == executeLOG(c, 4)

(***************************************************************************)
(* interpreter/Interpreter.ts                                              *)
(***************************************************************************)
\* The bytes after pc that the bytecode has, with nothing for those it lacks.
pushValueCut(bytecode, pc, numBytes) ==
    SubSeq(bytecode, pc + 2, Max(pc + 1, IF pc + numBytes < Len(bytecode)
                                         THEN pc + 1 + numBytes ELSE Len(bytecode)))

\* The value executePush reads: numBytes bytes after pc, zero past the end.
pushValue(bytecode, pc, numBytes) ==
    Tup([i \in 1..numBytes |->
            IF pc + i < Len(bytecode) THEN bytecode[pc + i + 1] ELSE 0], numBytes)

executePush(c, opcode, bytecode) ==
    Do(charge(c, 3, "PUSH" \o ToString(getPushBytes(opcode))), LAMBDA c1 :
    IF ~Ok(c1) THEN c1
    ELSE advance(pushTraced(c1, Word256(pushValue(bytecode, c1.state.pc,
                                                  getPushBytes(opcode)))),
                 1 + getPushBytes(opcode)))

\* A default branch that halts with the reason kept for the INVALID opcode.
executeInvalidInstruction(c) == halt(c, HaltReason.INVALID_INSTRUCTION)

\* default: of the switch of executeOpcode.
executeDefault(c) == halt(c, HaltReason.INVALID_OPCODE)

executeOpcode(c, opcode, bytecode, calldata, validJumpDests) ==
    IF isPushOpcode(opcode) THEN executePush(c, opcode, bytecode)
    ELSE IF opcode >= 128 /\ opcode <= 143 THEN executeDUP(c, opcode)
    ELSE IF opcode >= 144 /\ opcode <= 159 THEN executeSWAP(c, opcode)
    ELSE CASE opcode = Opcode.STOP         -> executeStop(c)
           [] opcode = Opcode.ADD          -> executeAdd(c)
           [] opcode = Opcode.MUL          -> executeMul(c)
           [] opcode = Opcode.SUB          -> executeSub(c)
           [] opcode = Opcode.DIV          -> executeDiv(c)
           [] opcode = Opcode.POP          -> executePOP(c)
           [] opcode = Opcode.MLOAD        -> executeMLOAD(c)
           [] opcode = Opcode.MSTORE       -> executeMSTORE(c)
           [] opcode = Opcode.MSTORE8      -> executeMSTORE8(c)
           [] opcode = Opcode.MSIZE        -> executeMSIZE(c)
           [] opcode = Opcode.CALLDATALOAD -> executeCALLDATALOAD(c, calldata)
           [] opcode = Opcode.CALLDATASIZE -> executeCALLDATASIZE(c, calldata)
           [] opcode = Opcode.CALLDATACOPY -> executeCALLDATACOPY(c, calldata)
           [] opcode = Opcode.RETURN       -> executeRETURN(c)
           [] opcode = Opcode.REVERT       -> executeREVERT(c)
           [] opcode = Opcode.PC           -> executePC(c)
           [] opcode = Opcode.JUMP         -> executeJUMP(c, bytecode, validJumpDests)
           [] opcode = Opcode.JUMPI        -> executeJUMPI(c, bytecode, validJumpDests)
           [] opcode = Opcode.JUMPDEST     -> executeJUMPDEST(c)
           [] opcode = Opcode.SLOAD        -> executeSLOAD(c)
           [] opcode = Opcode.SSTORE       -> executeSSTORE(c)
           [] opcode = Opcode.LOG0         -> executeLOG0(c)
           [] opcode = Opcode.LOG1         -> executeLOG1(c)
           [] opcode = Opcode.LOG2         -> executeLOG2(c)
           [] opcode = Opcode.LOG3         -> executeLOG3(c)
           [] opcode = Opcode.LOG4         -> executeLOG4(c)
           [] OTHER                        -> executeDefault(c)

\* catch (error) { ... } of step(): a StackError halts, 'Out of gas' is
\* dropped, anything else is thrown on (it stays in `exc`).
catch(c) ==
    IF Ok(c) THEN c
    ELSE IF isStackError(c.exc)
         THEN halt([c EXCEPT !.exc = "none"],
                   IF includesOverflow(c.exc) THEN HaltReason.STACK_OVERFLOW
                   ELSE HaltReason.STACK_UNDERFLOW)
    ELSE IF c.exc = OutOfGasMsg THEN [c EXCEPT !.exc = "none"]
    ELSE c

\* step() without the halt event after a handler.
forgetHaltEvent(c) == c

\* if (halted && haltReason) { record the halt event; return false }
\* A Halt event that carries the position after the instruction.
emitHaltAtNext(c) ==
    IF Ok(c) /\ c.state.halted /\ c.state.haltReason # undefined
    THEN emit(c, haltEvent(advance(c, 1), c.state.haltReason))
    ELSE c

emitHalt(c) ==
    IF Ok(c) /\ c.state.halted /\ c.state.haltReason # undefined
    THEN emitHaltEvent(c, c.state.haltReason)
    ELSE c

\* The opcode step() fetches.
fetch(c, bytecode) == bytecode[c.state.pc + 1]

\* step() without its test of `halted`.
stepWithoutHaltedTest(c, bytecode, calldata, validJumpDests) ==
    IF c.state.pc >= Len(bytecode)
    THEN emitHaltEvent(halt(c, HaltReason.STOP), HaltReason.STOP)
    ELSE emitHalt(catch(executeOpcode(emitOpcodeStart(c, fetch(c, bytecode)),
                                      fetch(c, bytecode), bytecode, calldata,
                                      validJumpDests)))

\* step() that treats the end of the bytecode as an invalid opcode.
stepInvalidPastEnd(c, bytecode, calldata, validJumpDests) ==
    IF c.state.halted THEN c
    ELSE IF c.state.pc >= Len(bytecode)
         THEN emitHaltEvent(halt(c, HaltReason.INVALID_OPCODE),
                            HaltReason.INVALID_OPCODE)
    ELSE emitHalt(catch(executeOpcode(emitOpcodeStart(c, fetch(c, bytecode)),
                                      fetch(c, bytecode), bytecode, calldata,
                                      validJumpDests)))

\* step(): the context it leaves; `exc` is the exception step() throws.
step(c, bytecode, calldata, validJumpDests) ==
    IF c.state.halted THEN c
    ELSE IF c.state.pc >= Len(bytecode)
         THEN emitHaltEvent(halt(c, HaltReason.STOP), HaltReason.STOP)
    ELSE emitHalt(catch(executeOpcode(emitOpcodeStart(c, fetch(c, bytecode)),
                                      fetch(c, bytecode), bytecode, calldata,
                                      validJumpDests)))

\* What step() hands to its caller: a boolean, or the exception thrown.
stepResult(c) ==
    IF ~Ok(c) THEN c.exc
    ELSE IF c.state.halted THEN "false" ELSE "true"

(***************************************************************************)
(* The programs the interpreters are constructed with: bytecode, calldata  *)
(* and the choices of initial gas.                                         *)
(***************************************************************************)
Program(code, data, gas) == [bytecode |-> code, calldata |-> data, gas |-> gas]

\* PUSH1 5, PUSH1 3, ADD, STOP
ArithmeticProgram ==
    Program(<<96, 5, 96, 3, 1, 0>>,
            <<>>, {0, 7, 9, 100})

\* the same without STOP: gas 7 runs out at ADD
NoStopProgram ==
    Program(<<96, 5, 96, 3, 1>>,
            <<>>, {7, 100})

\* ADD with one item
UnderflowProgram ==
    Program(<<96, 5, 1>>,
            <<>>, {5, 100})

\* MUL, DIV
MulDivProgram ==
    Program(<<96, 6, 96, 7, 2, 96, 2, 4, 0>>,
            <<>>, {19, 100})

\* DIV by zero, SUB
DivByZeroProgram ==
    Program(<<96, 1, 96, 0, 4, 96, 1, 3, 0>>,
            <<>>, {100})

\* JUMP to a PUSH1
InvalidJumpProgram ==
    Program(<<96, 4, 86, 0, 96, 66, 0>>,
            <<>>, {100})

\* JUMP to a 0x5b that is PUSH data
JumpIntoPushProgram ==
    Program(<<96, 4, 86, 96, 91, 0>>,
            <<>>, {100})

\* JUMP past the end
JumpBeyondProgram ==
    Program(<<96, 255, 86>>,
            <<>>, {10, 100})

\* JUMP to a JUMPDEST
ValidJumpProgram ==
    Program(<<96, 3, 86, 91, 0>>,
            <<>>, {100})

\* JUMPI, condition 1
JumpiTakenProgram ==
    Program(<<96, 6, 96, 1, 87, 0, 91, 0>>,
            <<>>, {100})

\* JUMPI, condition 0
JumpiNotTakenProgram ==
    Program(<<96, 6, 96, 0, 87, 91, 0>>,
            <<>>, {100})

\* JUMPI taken to a JUMPI
JumpiInvalidProgram ==
    Program(<<96, 3, 96, 1, 87, 0>>,
            <<>>, {15, 100})

\* JUMPI not taken, destination invalid
JumpiNotTakenInvalidProgram ==
    Program(<<96, 255, 96, 0, 87, 0>>,
            <<>>, {100})

\* JUMPDEST, PUSH1 0, JUMP: loops until the gas is gone
LoopProgram ==
    Program(<<91, 96, 0, 86>>,
            <<>>, {50})

\* MSTORE, RETURN 32 bytes
ReturnProgram ==
    Program(<<96, 42, 96, 0, 82, 96, 32, 96, 0, 243>>,
            <<>>, {8, 14, 100})

\* RETURN of memory not yet allocated
ReturnFreshProgram ==
    Program(<<96, 32, 96, 0, 243>>,
            <<>>, {8, 100})

\* MSTORE8, REVERT 1 byte
RevertProgram ==
    Program(<<96, 1, 96, 0, 83, 96, 1, 96, 0, 253>>,
            <<>>, {100})

\* RETURN with length 0
ReturnEmptyProgram ==
    Program(<<96, 0, 96, 0, 243>>,
            <<>>, {100})

\* MLOAD, MSIZE, MLOAD across a word boundary
LoadSizeProgram ==
    Program(<<96, 0, 81, 89, 96, 33, 81, 0>>,
            <<>>, {100})

\* CALLDATALOAD
CallDataLoadProgram ==
    Program(<<96, 0, 53, 96, 2, 53, 0>>,
            <<1, 2, 3, 4>>, {100})

\* CALLDATASIZE, CALLDATACOPY
CallDataCopyProgram ==
    Program(<<54, 96, 1, 96, 0, 55, 96, 0, 81, 0>>,
            <<1, 2, 3, 4>>, {20, 100})

\* SSTORE, SLOAD
StorageProgram ==
    Program(<<96, 42, 96, 0, 85, 96, 0, 84, 0>>,
            <<>>, {100, 20100, 30000})

\* SSTORE of a value, then of zero
StorageClearProgram ==
    Program(<<96, 42, 96, 0, 85, 96, 0, 96, 0, 85, 96, 0, 84, 0>>,
            <<>>, {30000})

\* SSTORE with one item
StorageUnderflowProgram ==
    Program(<<96, 1, 85>>,
            <<>>, {3, 30000})

\* SLOAD on an empty stack
LoadUnderflowProgram ==
    Program(<<84>>,
            <<>>, {100, 300})

\* LOG0, twice the operands
Log0Program ==
    Program(<<96, 0, 96, 0, 96, 0, 96, 0, 160, 0>>,
            <<>>, {100, 1000})

\* LOG0 of 32 bytes
Log0DataProgram ==
    Program(<<96, 42, 96, 0, 82, 96, 32, 96, 0, 160, 0>>,
            <<>>, {1000})

\* LOG1
Log1Program ==
    Program(<<96, 7, 96, 1, 96, 0, 161, 0>>,
            <<>>, {1000})

\* LOG2
Log2Program ==
    Program(<<96, 8, 96, 7, 96, 0, 96, 0, 162, 0>>,
            <<>>, {1000})

\* LOG3
Log3Program ==
    Program(<<96, 9, 96, 8, 96, 7, 96, 0, 96, 0, 163, 0>>,
            <<>>, {2000})

\* LOG4
Log4Program ==
    Program(<<96, 10, 96, 9, 96, 8, 96, 7, 96, 0, 96, 0, 164, 0>>,
            <<>>, {2000})

\* LOG1 without its topic
Log1UnderflowProgram ==
    Program(<<96, 0, 96, 0, 161>>,
            <<>>, {1000})

\* the INVALID opcode
InvalidProgram ==
    Program(<<254>>,
            <<>>, {0, 100})

\* a byte that is no opcode
UnknownProgram ==
    Program(<<96, 1, 12>>,
            <<>>, {100})

\* no bytecode at all
EmptyProgram ==
    Program(<<>>,
            <<>>, {0, 100})

\* MLOAD at offset 2^256 - 1
HugeOffsetProgram ==
    Program(<<96, 0, 96, 1, 3, 81, 0>>,
            <<>>, {100})

\* MSTORE at offset 2^256 - 1
HugeStoreProgram ==
    Program(<<96, 1, 127, 255, 255, 255, 255, 255, 255, 255, 255, 255, 255, 255, 255, 255, 255, 255, 255, 255, 255, 255, 255, 255, 255, 255, 255, 255, 255, 255, 255, 255, 255, 255, 255, 82, 0>>,
            <<>>, {100})

\* RETURN at offset 2^256 - 1
HugeReturnProgram ==
    Program(<<96, 1, 96, 0, 96, 1, 3, 243>>,
            <<>>, {100})

\* DUP1, SWAP1, SWAP2, DUP2, POP
DupSwapProgram ==
    Program(<<96, 1, 96, 2, 128, 144, 145, 129, 80, 0>>,
            <<>>, {100})

\* DUP2 with one item
DupUnderflowProgram ==
    Program(<<96, 1, 129>>,
            <<>>, {5, 100})

\* SWAP1 with one item
SwapUnderflowProgram ==
    Program(<<96, 1, 144>>,
            <<>>, {5, 100})

\* POP on an empty stack
PopUnderflowProgram ==
    Program(<<80>>,
            <<>>, {1, 100})

\* PUSH2 with one data byte
TruncatedProgram ==
    Program(<<97, 1>>,
            <<>>, {100})

\* PUSH32 with no data
Truncated32Program ==
    Program(<<127>>,
            <<>>, {100})

\* PC, PC, ADD
CounterProgram ==
    Program(<<88, 88, 1, 0>>,
            <<>>, {4, 100})

\* MSTORE at offset 1 (bytes 1..32), MSTORE8 at offset 65, MSIZE, STOP
UnalignedProgram ==
    Program(<<96, 171, 96, 1, 82, 96, 205, 96, 65, 83, 89, 0>>,
            <<>>, {13, 16, 100})

\* MSTORE at offset 1, RETURN of the 2 bytes at offset 31
ReturnSliceProgram ==
    Program(<<96, 171, 96, 1, 82, 96, 2, 96, 31, 243>>,
            <<>>, {100})

\* SSTORE of 42 at key 0, then REVERT of no data
StoreThenRevertProgram ==
    Program(<<96, 42, 96, 0, 85, 96, 0, 96, 0, 253>>,
            <<>>, {30000})

\* JUMPI, condition 0, destination a JUMPDEST
JumpiNotTakenValidProgram ==
    Program(<<96, 5, 96, 0, 87, 91, 0>>,
            <<>>, {100})

\* SLOAD of key 1, which no host holds
LoadOtherKeyProgram ==
    Program(<<96, 1, 84, 0>>,
            <<>>, {300})

\* PUSH32 of 2^256 - 1, then MUL by 2, ADD of 3, SUB of 2 and DIV by 16:
\* the first three results wrap around 2^256
WrapProgram ==
    Program(<<127>> \o Tup([k \in 1..WORD_SIZE |-> 255], WORD_SIZE)
                \o <<96, 2, 2, 96, 3, 1, 96, 2, 3, 96, 16, 4, 0>>,
            <<>>, {100})

CuratedPrograms ==
    {CounterProgram, ArithmeticProgram, NoStopProgram, UnderflowProgram, MulDivProgram,
     DivByZeroProgram, InvalidJumpProgram, JumpIntoPushProgram,
     JumpBeyondProgram, ValidJumpProgram, JumpiTakenProgram,
     JumpiNotTakenProgram, JumpiInvalidProgram,
     JumpiNotTakenInvalidProgram, LoopProgram, ReturnProgram,
     ReturnFreshProgram, RevertProgram, ReturnEmptyProgram,
     LoadSizeProgram, CallDataLoadProgram, CallDataCopyProgram,
     StorageProgram, StorageClearProgram, StorageUnderflowProgram,
     LoadUnderflowProgram, Log0Program, Log0DataProgram, Log1Program,
     Log2Program, Log3Program, Log4Program, Log1UnderflowProgram,
     InvalidProgram, UnknownProgram, EmptyProgram, HugeOffsetProgram,
     HugeStoreProgram, HugeReturnProgram, DupSwapProgram,
     DupUnderflowProgram, SwapUnderflowProgram, PopUnderflowProgram,
     TruncatedProgram, Truncated32Program, UnalignedProgram, ReturnSliceProgram,
     StoreThenRevertProgram, JumpiNotTakenValidProgram,
     LoadOtherKeyProgram, WrapProgram}

\* PC until the stack is full, and once more: the push that overflows.
PushOverflowProgram ==
    Program(Tup([k \in 1..(MAX_STACK_DEPTH + 1) |-> Opcode.PC], MAX_STACK_DEPTH + 1),
            <<>>, {2 * MAX_STACK_DEPTH + 2})

\* PC until the stack is full, then DUP1: the dup that overflows.
DupOverflowProgram ==
    Program(Tup([k \in 1..MAX_STACK_DEPTH |-> Opcode.PC], MAX_STACK_DEPTH) \o <<Opcode.DUP1>>,
            <<>>, {2 * MAX_STACK_DEPTH + 2, 2 * MAX_STACK_DEPTH + 3})

\* Every bytecode of at most MaxCodeLen bytes over CodeAlphabet.
CodeAlphabet ==
    {Opcode.STOP, Opcode.ADD, Opcode.POP, Opcode.SLOAD, Opcode.SSTORE, Opcode.JUMP,
     Opcode.PC, Opcode.JUMPDEST, Opcode.PUSH1, Opcode.DUP1, Opcode.LOG0, Opcode.RETURN}

GeneratedGas == {2, 4, 8, 400, 25000}

GeneratedPrograms ==
    {Program(code, <<>>, GeneratedGas) :
        code \in UNION {[1..n -> CodeAlphabet] : n \in 0..MaxCodeLen}}

\* The hosts an interpreter is handed: fresh, or with slot 0 already set.
HostStarts ==
    {MemoryHost(AddressZero),
     [MemoryHost(AddressZero) EXCEPT !.storage = (storageKey(AddressZero, zero) :> fromNumber(7))]}

(***************************************************************************)
(* The state: one Interpreter per element of DOMAIN state.                 *)
(***************************************************************************)
VARIABLES
    bytecode,        \* bytecode[i]: the interpreter's bytecode (0-based in the source)
    calldata,        \* calldata[i]
    initialGas,      \* initialGas[i]: config.initialGas
    validJumpDests,  \* validJumpDests[i]
    hostOf,          \* hostOf[i]: the host the interpreter was constructed with
    state,           \* state[i]: its MachineState
    stack,           \* stack[i]: its Stack, bottom first
    trace,           \* trace[i]: its TraceCollector
    host,            \* host[h]: a MemoryHost
    result,          \* result[i]: what the last step() gave its caller
    running,         \* running[i]: where a call of run() stands
    idle             \* idle[i]: step() calls made after the halt

config == <<bytecode, calldata, initialGas, validJumpDests, hostOf>>

vars == <<bytecode, calldata, initialGas, validJumpDests, hostOf,
          state, stack, trace, host, result, running, idle>>

Interpreters == DOMAIN state

\* A host shared by all interpreters instead of one each.
sharedHost(i) == 1

\* config.host of interpreter i: a host of its own.
ownHost(i) == i

\* new Interpreter(config) for each i in ids, all with program p and gas g,
\* each with a host of its own that starts as h.
Construct(ids, p, g, h) ==
    /\ bytecode = [i \in ids |-> Tup(p.bytecode, Len(p.bytecode))]
    /\ calldata = [i \in ids |-> p.calldata]
    /\ initialGas = [i \in ids |-> g]
    /\ validJumpDests = [i \in ids |-> buildJumpDestinations(p.bytecode)]
    /\ hostOf = [i \in ids |-> ownHost(i)]
    /\ state = [i \in ids |-> MachineState(g)]
    /\ stack = [i \in ids |-> <<>>]
    /\ trace = [i \in ids |-> TraceCollector]
    /\ host = [i \in ids |-> h]
    /\ result = [i \in ids |-> "none"]
    /\ running = [i \in ids |-> "no"]
    /\ idle = [i \in ids |-> 0]

\* The interpreters of ids are constructed with p, each with some choice of
\* gas and of host start (the same for all).
Constructed(ids, p) == \E g \in p.gas, h \in HostStarts : Construct(ids, p, g, h)

Init ==
    \/ \E p \in CuratedPrograms : Constructed({1}, p)
    \/ \E p \in GeneratedPrograms : Constructed({1}, p)
    \/ Constructed({1}, PushOverflowProgram)
    \/ Constructed({1}, DupOverflowProgram)

InitPair == \E p \in CuratedPrograms : Constructed({1, 2}, p)

Context(i) ==
    [state |-> state[i], stack |-> stack[i], trace |-> trace[i],
     host |-> host[hostOf[i]], exc |-> "none"]

\* run() is `while (this.step()) {}`: the loop goes on after true, returns
\* after false, and an exception of step() leaves run().
afterStep(where, r) ==
    IF where # "run" THEN where
    ELSE IF r = "true" THEN "run"
    ELSE IF r = "false" THEN "returned"
    ELSE "thrown"

\* The interpreter i and its host take over what a call of step() left in
\* the context c; the caller gets r.
Returns(i, c, r) ==
    /\ state' = [state EXCEPT ![i] = c.state]
    /\ stack' = [stack EXCEPT ![i] = c.stack]
    /\ trace' = [trace EXCEPT ![i] = c.trace]
    /\ host' = [host EXCEPT ![hostOf[i]] = c.host]
    /\ result' = [result EXCEPT ![i] = r]
    /\ running' = [running EXCEPT ![i] = afterStep(@, r)]
    /\ idle' = [idle EXCEPT ![i] = IF state[i].halted THEN @ + 1 ELSE @]
    /\ UNCHANGED config

Left(i, c) == Returns(i, c, stepResult(c))

\* One call of step() on interpreter i, by the caller or by run().
Step(i) == Left(i, step(Context(i), bytecode[i], calldata[i], validJumpDests[i]))

\* step() finds opcode `opcode` at the program counter.
Fetches(i, opcode) ==
    /\ ~state[i].halted
    /\ state[i].pc < Len(bytecode[i])
    /\ bytecode[i][state[i].pc + 1] = opcode

\* run() is called.
run(i) ==
    /\ running[i] # "run"
    /\ state[i].halted => idle[i] < MaxIdleCalls
    /\ running' = [running EXCEPT ![i] = "run"]
    /\ UNCHANGED <<config, state, stack, trace, host, result, idle>>

\* step() on a halted interpreter.
StepHalted(i) == state[i].halted /\ idle[i] < MaxIdleCalls /\ Step(i)

\* step() with the program counter past the end of the bytecode.
StepPastEnd(i) == ~state[i].halted /\ state[i].pc >= Len(bytecode[i]) /\ Step(i)

StepPUSH(i) == (\E opcode \in 96..127 : Fetches(i, opcode)) /\ Step(i)
StepDUP(i) == (\E opcode \in 128..143 : Fetches(i, opcode)) /\ Step(i)
StepSWAP(i) == (\E opcode \in 144..159 : Fetches(i, opcode)) /\ Step(i)
StepSTOP(i) == Fetches(i, Opcode.STOP) /\ Step(i)
StepADD(i) == Fetches(i, Opcode.ADD) /\ Step(i)
StepMUL(i) == Fetches(i, Opcode.MUL) /\ Step(i)
StepSUB(i) == Fetches(i, Opcode.SUB) /\ Step(i)
StepDIV(i) == Fetches(i, Opcode.DIV) /\ Step(i)
StepPOP(i) == Fetches(i, Opcode.POP) /\ Step(i)
StepMLOAD(i) == Fetches(i, Opcode.MLOAD) /\ Step(i)
StepMSTORE(i) == Fetches(i, Opcode.MSTORE) /\ Step(i)
StepMSTORE8(i) == Fetches(i, Opcode.MSTORE8) /\ Step(i)
StepMSIZE(i) == Fetches(i, Opcode.MSIZE) /\ Step(i)
StepCALLDATALOAD(i) == Fetches(i, Opcode.CALLDATALOAD) /\ Step(i)
StepCALLDATASIZE(i) == Fetches(i, Opcode.CALLDATASIZE) /\ Step(i)
StepCALLDATACOPY(i) == Fetches(i, Opcode.CALLDATACOPY) /\ Step(i)
StepRETURN(i) == Fetches(i, Opcode.RETURN) /\ Step(i)
StepREVERT(i) == Fetches(i, Opcode.REVERT) /\ Step(i)
StepPC(i) == Fetches(i, Opcode.PC) /\ Step(i)
StepJUMP(i) == Fetches(i, Opcode.JUMP) /\ Step(i)
StepJUMPI(i) == Fetches(i, Opcode.JUMPI) /\ Step(i)
StepJUMPDEST(i) == Fetches(i, Opcode.JUMPDEST) /\ Step(i)
StepSLOAD(i) == Fetches(i, Opcode.SLOAD) /\ Step(i)
StepSSTORE(i) == Fetches(i, Opcode.SSTORE) /\ Step(i)
StepLOG0(i) == Fetches(i, Opcode.LOG0) /\ Step(i)
StepLOG1(i) == Fetches(i, Opcode.LOG1) /\ Step(i)
StepLOG2(i) == Fetches(i, Opcode.LOG2) /\ Step(i)
StepLOG3(i) == Fetches(i, Opcode.LOG3) /\ Step(i)
StepLOG4(i) == Fetches(i, Opcode.LOG4) /\ Step(i)

Dispatched ==
    (96..159) \cup
    {Opcode.STOP, Opcode.ADD, Opcode.MUL, Opcode.SUB, Opcode.DIV, Opcode.POP,
     Opcode.MLOAD, Opcode.MSTORE, Opcode.MSTORE8, Opcode.MSIZE, Opcode.CALLDATALOAD,
     Opcode.CALLDATASIZE, Opcode.CALLDATACOPY, Opcode.RETURN, Opcode.REVERT, Opcode.PC,
     Opcode.JUMP, Opcode.JUMPI, Opcode.JUMPDEST, Opcode.SLOAD, Opcode.SSTORE,
     Opcode.LOG0, Opcode.LOG1, Opcode.LOG2, Opcode.LOG3, Opcode.LOG4}

\* The default branch of executeOpcode.
StepInvalid(i) == (\E opcode \in (0..255) \ Dispatched : Fetches(i, opcode)) /\ Step(i)

Next ==
    \/ \E i \in Interpreters : run(i)
    \/ \E i \in Interpreters : StepHalted(i)
    \/ \E i \in Interpreters : StepPastEnd(i)
    \/ \E i \in Interpreters : StepPUSH(i)
    \/ \E i \in Interpreters : StepDUP(i)
    \/ \E i \in Interpreters : StepSWAP(i)
    \/ \E i \in Interpreters : StepSTOP(i)
    \/ \E i \in Interpreters : StepADD(i)
    \/ \E i \in Interpreters : StepMUL(i)
    \/ \E i \in Interpreters : StepSUB(i)
    \/ \E i \in Interpreters : StepDIV(i)
    \/ \E i \in Interpreters : StepPOP(i)
    \/ \E i \in Interpreters : StepMLOAD(i)
    \/ \E i \in Interpreters : StepMSTORE(i)
    \/ \E i \in Interpreters : StepMSTORE8(i)
    \/ \E i \in Interpreters : StepMSIZE(i)
    \/ \E i \in Interpreters : StepCALLDATALOAD(i)
    \/ \E i \in Interpreters : StepCALLDATASIZE(i)
    \/ \E i \in Interpreters : StepCALLDATACOPY(i)
    \/ \E i \in Interpreters : StepRETURN(i)
    \/ \E i \in Interpreters : StepREVERT(i)
    \/ \E i \in Interpreters : StepPC(i)
    \/ \E i \in Interpreters : StepJUMP(i)
    \/ \E i \in Interpreters : StepJUMPI(i)
    \/ \E i \in Interpreters : StepJUMPDEST(i)
    \/ \E i \in Interpreters : StepSLOAD(i)
    \/ \E i \in Interpreters : StepSSTORE(i)
    \/ \E i \in Interpreters : StepLOG0(i)
    \/ \E i \in Interpreters : StepLOG1(i)
    \/ \E i \in Interpreters : StepLOG2(i)
    \/ \E i \in Interpreters : StepLOG3(i)
    \/ \E i \in Interpreters : StepLOG4(i)
    \/ \E i \in Interpreters : StepInvalid(i)

Spec == Init /\ [][Next]_vars

SpecPair == InitPair /\ [][Next]_vars

\* The context c after n further calls of step(), each of which begins with
\* no exception in flight.
RECURSIVE steps(_, _, _, _, _)
steps(c, n, code, data, dests) ==
    IF n = 0 THEN c
    ELSE IF n = 1 THEN step([c EXCEPT !.exc = "none"], code, data, dests)
    ELSE LET half == steps(c, n \div 2, code, data, dests)
         IN  Force(half, steps(half, n - (n \div 2), code, data, dests))

\* What new Interpreter(config) is made of: the context step() starts from.
Constructs(g, h) ==
    [state |-> MachineState(g), stack |-> <<>>, trace |-> TraceCollector,
     host |-> h, exc |-> "none"]

\* Interpreter 1, constructed with p, g and h, has n calls of step() behind
\* it, the last of which left it in the context c.
Resumes(p, g, h, c) ==
    /\ bytecode = [i \in {1} |-> Tup(p.bytecode, Len(p.bytecode))]
    /\ calldata = [i \in {1} |-> p.calldata]
    /\ initialGas = [i \in {1} |-> g]
    /\ validJumpDests = [i \in {1} |-> buildJumpDestinations(p.bytecode)]
    /\ hostOf = [i \in {1} |-> ownHost(i)]
    /\ state = [i \in {1} |-> c.state]
    /\ stack = [i \in {1} |-> c.stack]
    /\ trace = [i \in {1} |-> c.trace]
    /\ host = [i \in {1} |-> c.host]
    /\ result = [i \in {1} |-> stepResult(c)]
    /\ running = [i \in {1} |-> "no"]
    /\ idle = [i \in {1} |-> 0]

Resumed(p) ==
    \E g \in p.gas, h \in HostStarts :
        Resumes(p, g, h, steps(Constructs(g, h), WarmUp, p.bytecode, p.calldata,
                               buildJumpDestinations(p.bytecode)))

\* The states of Init, and the stack-filling programs WarmUp steps on: the
\* states in which the stack is full are then a few steps away.
InitDeep ==
    \/ Init
    \/ Resumed(PushOverflowProgram)
    \/ Resumed(DupOverflowProgram)

SpecDeep == InitDeep /\ [][Next]_vars

\* The programs interpreter 2 of SpecApart runs while interpreter 1 runs a
\* curated one: SSTORE and SLOAD of slot 0, with gas for both.
ApartPrograms == {Program(StorageProgram.bytecode, StorageProgram.calldata, {30000})}

\* The host interpreter i of SpecApart is constructed with: a host of its
\* own, fresh for interpreter 1 and with slot 0 set for interpreter 2.
hostStart(i) ==
    IF i = 1 THEN MemoryHost(AddressZero)
    ELSE [MemoryHost(AddressZero) EXCEPT
             !.storage = (storageKey(AddressZero, zero) :> fromNumber(7))]

\* new Interpreter(config) twice: interpreter 1 with p and g, interpreter 2
\* with q and gq, no host shared.
ConstructApart(p, g, q, gq) ==
    /\ bytecode = [i \in {1, 2} |-> IF i = 1 THEN Tup(p.bytecode, Len(p.bytecode))
                                              ELSE Tup(q.bytecode, Len(q.bytecode))]
    /\ calldata = [i \in {1, 2} |-> IF i = 1 THEN p.calldata ELSE q.calldata]
    /\ initialGas = [i \in {1, 2} |-> IF i = 1 THEN g ELSE gq]
    /\ validJumpDests = [i \in {1, 2} |-> IF i = 1 THEN buildJumpDestinations(p.bytecode)
                                                    ELSE buildJumpDestinations(q.bytecode)]
    /\ hostOf = [i \in {1, 2} |-> ownHost(i)]
    /\ state = [i \in {1, 2} |-> MachineState(IF i = 1 THEN g ELSE gq)]
    /\ stack = [i \in {1, 2} |-> <<>>]
    /\ trace = [i \in {1, 2} |-> TraceCollector]
    /\ host = [i \in {1, 2} |-> hostStart(i)]
    /\ result = [i \in {1, 2} |-> "none"]
    /\ running = [i \in {1, 2} |-> "no"]
    /\ idle = [i \in {1, 2} |-> 0]

InitApart ==
    \E p \in CuratedPrograms, q \in ApartPrograms :
        \E g \in p.gas, gq \in q.gas : ConstructApart(p, g, q, gq)

SpecApart == InitApart /\ [][Next]_vars

\* Interpreter i of SpecApart run alone: constructed with its program, gas
\* and host, and step() called until it has halted (further calls change
\* nothing).
alone(i) ==
    steps(Constructs(initialGas[i], hostStart(i)), MaxSoloSteps,
          bytecode[i], calldata[i], validJumpDests[i])

(***************************************************************************)
(* Two interpreters constructed with one host (SpecShared): the caller     *)
(* hands the same MemoryHost object to both configurations and calls       *)
(* step() and run() on them in any order.                                  *)
(***************************************************************************)
\* The program interpreter 2 of SpecShared runs while interpreter 1 runs a
\* curated one: PUSH1 9, PUSH1 0, SSTORE, STOP.
SharedPrograms == {Program(<<96, 9, 96, 0, 85, 0>>, <<>>, {30000})}

\* A host object for each interpreter.
hostEach(i) == i

\* config.host of interpreter i of SpecShared: host 1, for both.
oneHost(i) == 1

\* new Interpreter(config) twice with the same config.host: interpreter 1
\* with p and g, interpreter 2 with q and gq.  Host 2 is a fresh host that
\* no interpreter is constructed with.
ConstructShared(p, g, q, gq) ==
    /\ bytecode = [i \in {1, 2} |-> IF i = 1 THEN Tup(p.bytecode, Len(p.bytecode))
                                              ELSE Tup(q.bytecode, Len(q.bytecode))]
    /\ calldata = [i \in {1, 2} |-> IF i = 1 THEN p.calldata ELSE q.calldata]
    /\ initialGas = [i \in {1, 2} |-> IF i = 1 THEN g ELSE gq]
    /\ validJumpDests = [i \in {1, 2} |-> IF i = 1 THEN buildJumpDestinations(p.bytecode)
                                                    ELSE buildJumpDestinations(q.bytecode)]
    /\ hostOf = [i \in {1, 2} |-> oneHost(i)]
    /\ state = [i \in {1, 2} |-> MachineState(IF i = 1 THEN g ELSE gq)]
    /\ stack = [i \in {1, 2} |-> <<>>]
    /\ trace = [i \in {1, 2} |-> TraceCollector]
    /\ host = [i \in {1, 2} |-> MemoryHost(AddressZero)]
    /\ result = [i \in {1, 2} |-> "none"]
    /\ running = [i \in {1, 2} |-> "no"]
    /\ idle = [i \in {1, 2} |-> 0]

InitShared ==
    \E p \in CuratedPrograms, q \in SharedPrograms :
        \E g \in p.gas, gq \in q.gas : ConstructShared(p, g, q, gq)

SpecShared == InitShared /\ [][Next]_vars

(***************************************************************************)
(* What the properties below speak of.                                     *)
(***************************************************************************)
\* Interpreter i executed an instruction in this step (it was not halted
\* and its program counter was inside the bytecode).
Executes(i) ==
    /\ ~state[i].halted
    /\ state[i].pc < Len(bytecode[i])
    /\ trace'[i] # trace[i]

\* step() was called on interpreter i, which was halted already.
CalledWhenHalted(i) == state[i].halted /\ idle'[i] # idle[i]

\* The opcode at the program counter of interpreter i.
Current(i) == bytecode[i][state[i].pc + 1]

\* The stack items an instruction takes (DUPn reads n, SWAPn n + 1).
itemsNeeded(opcode) ==
    IF opcode >= 128 /\ opcode <= 143 THEN opcode - 127
    ELSE IF opcode >= 144 /\ opcode <= 159 THEN opcode - 142
    ELSE IF opcode >= Opcode.LOG0 /\ opcode <= Opcode.LOG4 THEN 2 + (opcode - Opcode.LOG0)
    ELSE IF opcode \in {Opcode.ADD, Opcode.MUL, Opcode.SUB, Opcode.DIV, Opcode.MSTORE,
                        Opcode.MSTORE8, Opcode.RETURN, Opcode.REVERT, Opcode.JUMPI,
                        Opcode.SSTORE} THEN 2
    ELSE IF opcode \in {Opcode.POP, Opcode.MLOAD, Opcode.CALLDATALOAD, Opcode.JUMP,
                        Opcode.SLOAD} THEN 1
    ELSE IF opcode = Opcode.CALLDATACOPY THEN 3
    ELSE 0

\* The instructions that put an item on the stack without taking one.
growsStack(opcode) ==
    \/ isPushOpcode(opcode)
    \/ opcode >= 128 /\ opcode <= 143
    \/ opcode \in {Opcode.PC, Opcode.MSIZE, Opcode.CALLDATASIZE}

\* The gas a handler charges before it first touches the stack.
gasBeforeStack(opcode) ==
    IF opcode >= 96 /\ opcode <= 159 THEN 3
    ELSE IF opcode \in {Opcode.ADD, Opcode.SUB, Opcode.MLOAD, Opcode.MSTORE, Opcode.MSTORE8,
                        Opcode.CALLDATALOAD, Opcode.CALLDATACOPY} THEN 3
    ELSE IF opcode \in {Opcode.MUL, Opcode.DIV} THEN 5
    ELSE IF opcode \in {Opcode.POP, Opcode.PC, Opcode.MSIZE, Opcode.CALLDATASIZE} THEN 2
    ELSE IF opcode = Opcode.JUMP THEN 8
    ELSE IF opcode = Opcode.JUMPI THEN 10
    ELSE IF opcode = Opcode.SLOAD THEN 200
    ELSE 0

\* Position d of the code is where an instruction starts: the scan from 0,
\* stepping over PUSH data, stops there.
RECURSIVE instructionStart(_, _)
instructionStart(code, d) ==
    \/ d = 0
    \/ \E b \in 0..(d - 1) :
          /\ b + 1 + getPushBytes(code[b + 1]) = d
          /\ instructionStart(code, b)

\* Position d is a JUMPDEST instruction of the code.
isJumpDest(code, d) == d < Len(code) /\ code[d + 1] = 91 /\ instructionStart(code, d)

\* The sum of the amounts of the gas.charge events among events[lo..hi].
RECURSIVE gasCharged(_, _, _)
gasCharged(events, lo, hi) ==
    IF lo > hi THEN 0
    ELSE IF lo = hi
         THEN IF events[lo].type = "gas.charge" THEN events[lo].amount ELSE 0
    ELSE LET mid   == (lo + hi) \div 2
             first == gasCharged(events, lo, mid)
         IN  Force(first, first + gasCharged(events, mid + 1, hi))

\* The amounts chargeGas is tried with on every reachable state.
ChargeAmounts == {0, 1, 2, 3, 5, 8, 10, 200, 375, 5000, 20000}

(***************************************************************************)
(* C1.  step() and run() return normally whatever the bytecode, calldata,  *)
(* gas, host and operands are, LOG0..LOG4, SLOAD/SSTORE and the memory     *)
(* opcodes included: no call of step() ends in an exception, no run() is   *)
(* left by one, and when run() has returned the interpreter is halted      *)
(* with a halt reason.                                                     *)
(***************************************************************************)
C1_NoExceptionEscapes ==
    \A i \in Interpreters :
        /\ result[i] \in {"none", "true", "false"}
        /\ running[i] # "thrown"
        /\ running[i] = "returned" =>
              state[i].halted /\ state[i].haltReason # undefined

(***************************************************************************)
(* C2.  A step() on a halted interpreter returns false and changes         *)
(* nothing: not the machine state (pc, gas, memory, return data, halt      *)
(* reason), not the stack, not the trace (events and index counter), not   *)
(* the host.                                                               *)
(***************************************************************************)
C2_HaltedStepChangesNothing ==
    [][\A i \in Interpreters :
          CalledWhenHalted(i) =>
              /\ result'[i] = "false"
              /\ state'[i] = state[i]
              /\ stack'[i] = stack[i]
              /\ trace'[i] = trace[i]
              /\ host'[hostOf[i]] = host[hostOf[i]]]_vars

\* step() has been called on an interpreter that had halted with a trace,
\* items on its stack and a slot in its host.
C2_Witness ==
    \E i \in Interpreters :
        /\ state[i].halted
        /\ idle[i] = MaxIdleCalls
        /\ result[i] = "false"
        /\ Len(stack[i]) > 0
        /\ Len(trace[i].events) > 3
        /\ DOMAIN host[hostOf[i]].storage # {}

(***************************************************************************)
(* C3.  After any sequence of step() calls the event at position k of the  *)
(* trace (from 0) has index k.                                             *)
(***************************************************************************)
C3_IndexIsPosition ==
    \A i \in Interpreters :
        \A k \in 1..Len(trace[i].events) : trace[i].events[k].index = k - 1

(***************************************************************************)
(* C4.  Once halted, the amounts of the gas.charge events of the trace add *)
(* up to initialGas - gasRemaining, whichever opcodes the bytecode uses.   *)
(***************************************************************************)
C4_ChargesAddUp ==
    \A i \in Interpreters :
        state[i].halted =>
            gasCharged(trace[i].events, 1, Len(trace[i].events))
                = initialGas[i] - state[i].gasRemaining

C6_OneHaltEventLast ==
    \A i \in Interpreters :
        state[i].halted =>
            LET events == trace[i].events
                n      == Len(trace[i].events)
            IN  /\ n > 0
                /\ events[n].type = "halt"
                /\ events[n].reason = state[i].haltReason
                /\ events[n].gasRemaining = state[i].gasRemaining
                /\ \A k \in 1..(n - 1) : events[k].type # "halt"

\* An interpreter halted by a handler (out of gas, after some events), and
\* step() was called again.
C6_Witness ==
    \E i \in Interpreters :
        /\ state[i].halted
        /\ state[i].haltReason = HaltReason.OUT_OF_GAS
        /\ Len(trace[i].events) > 4
        /\ idle[i] > 0

(***************************************************************************)
(* C7.  run() executes finitely many steps and ends halted.  Stated for a  *)
(* run() that has ended: it ended by returning, with the interpreter       *)
(* halted.                                                                 *)
(***************************************************************************)
C7_RunEndsHalted ==
    \A i \in Interpreters :
        running[i] \in {"returned", "thrown"} =>
            running[i] = "returned" /\ state[i].halted

(***************************************************************************)
(* C8.  chargeGas(amount) with amount above gasRemaining halts with        *)
(* OUT_OF_GAS and leaves gasRemaining as it is, and otherwise subtracts    *)
(* exactly amount (tried on every reachable state); gasRemaining is never  *)
(* negative and no step increases it; 60 05 60 03 01 with gas 7 halts      *)
(* with OUT_OF_GAS and gas 1.                                              *)
(***************************************************************************)
C8_ChargeOn(i, amount) ==
    IF amount > state[i].gasRemaining
    THEN /\ chargeGas(Context(i), amount).state.halted
         /\ chargeGas(Context(i), amount).state.haltReason = HaltReason.OUT_OF_GAS
         /\ chargeGas(Context(i), amount).state.gasRemaining = state[i].gasRemaining
    ELSE /\ chargeGas(Context(i), amount).state.gasRemaining = state[i].gasRemaining - amount
         /\ chargeGas(Context(i), amount).state.halted = state[i].halted

C8_GasState ==
    \A i \in Interpreters :
        /\ state[i].gasRemaining >= 0
        /\ \A amount \in ChargeAmounts : C8_ChargeOn(i, amount)
        /\ (bytecode[i] = NoStopProgram.bytecode /\ initialGas[i] = 7 /\ state[i].halted) =>
              state[i].haltReason = HaltReason.OUT_OF_GAS /\ state[i].gasRemaining = 1

C8_ChargeGasAtomic ==
    /\ []C8_GasState
    /\ [][\A i \in Interpreters : state'[i].gasRemaining <= state[i].gasRemaining]_vars

\* 60 05 60 03 01 with gas 7 has run out of gas at ADD.
C8_Witness ==
    \E i \in Interpreters :
        /\ bytecode[i] = NoStopProgram.bytecode
        /\ initialGas[i] = 7
        /\ state[i].haltReason = HaltReason.OUT_OF_GAS
        /\ state[i].pc = 4

(***************************************************************************)
(* C9.  A JUMP, or a JUMPI whose condition is not zero, that has paid its  *)
(* gas and popped its operands: if the destination is at or beyond the end *)
(* of the bytecode or is no JUMPDEST instruction (a 0x5b byte inside PUSH  *)
(* data is none), the interpreter halts with INVALID_JUMP and the pc stays *)
(* at the jump; otherwise the pc becomes the destination.                  *)
(***************************************************************************)
C9_Lands(i, destPC) ==
    IF destPC >= Len(bytecode[i]) \/ ~isJumpDest(bytecode[i], destPC)
    THEN /\ state'[i].halted
         /\ state'[i].haltReason = HaltReason.INVALID_JUMP
         /\ state'[i].pc = state[i].pc
    ELSE /\ ~state'[i].halted
         /\ state'[i].pc = destPC

C9_JumpTarget ==
    [][\A i \in Interpreters :
          /\ (/\ Executes(i)
              /\ Current(i) = Opcode.JUMP
              /\ state[i].gasRemaining >= 8
              /\ Len(stack[i]) >= 1)
             => C9_Lands(i, Number(stack[i][Len(stack[i])]))
          /\ (/\ Executes(i)
              /\ Current(i) = Opcode.JUMPI
              /\ state[i].gasRemaining >= 10
              /\ Len(stack[i]) >= 2
              /\ ~isZero(stack[i][Len(stack[i])]))
             => C9_Lands(i, Number(stack[i][Len(stack[i]) - 1]))]_vars

\* A jump to a 0x5b byte that is PUSH data has halted with INVALID_JUMP.
C9_Witness ==
    \E i \in Interpreters :
        /\ state[i].haltReason = HaltReason.INVALID_JUMP
        /\ \E k \in 1..Len(trace[i].events) :
              /\ trace[i].events[k].type = "jump"
              /\ trace[i].events[k].to < Len(bytecode[i])
              /\ bytecode[i][trace[i].events[k].to + 1] = 91

(***************************************************************************)
(* C10.  As stated: an instruction that needs more stack items than there  *)
(* are halts with STACK_UNDERFLOW, a push or DUP on a full stack halts     *)
(* with STACK_OVERFLOW, and step() returns false (the stack error does not *)
(* reach the caller).                                                      *)
(***************************************************************************)
C10_Underflows(i) == Len(stack[i]) < itemsNeeded(Current(i))

C10_Overflows(i) ==
    /\ growsStack(Current(i))
    /\ Len(stack[i]) >= MAX_STACK_DEPTH
    /\ ~C10_Underflows(i)

C10_HaltsWith(i, reason) ==
    /\ state'[i].halted
    /\ state'[i].haltReason = reason
    /\ result'[i] = "false"

C10_AsStated ==
    [][\A i \in Interpreters :
          Executes(i) =>
              /\ C10_Underflows(i) => C10_HaltsWith(i, HaltReason.STACK_UNDERFLOW)
              /\ C10_Overflows(i) => C10_HaltsWith(i, HaltReason.STACK_OVERFLOW)]_vars

(***************************************************************************)
(* C10, amended.  The same for an instruction that has the gas its handler *)
(* charges before it touches the stack; without that gas the halt is       *)
(* OUT_OF_GAS.                                                             *)
(***************************************************************************)
C10_StackErrorsHalt ==
    [][\A i \in Interpreters :
          Executes(i) =>
              IF state[i].gasRemaining >= gasBeforeStack(Current(i))
              THEN /\ C10_Underflows(i) => C10_HaltsWith(i, HaltReason.STACK_UNDERFLOW)
                   /\ C10_Overflows(i) => C10_HaltsWith(i, HaltReason.STACK_OVERFLOW)
              ELSE (C10_Underflows(i) \/ C10_Overflows(i)) =>
                       C10_HaltsWith(i, HaltReason.OUT_OF_GAS)]_vars

\* ADD with gas for it and one item on the stack has halted with
\* STACK_UNDERFLOW, and step() returned false.
C10_Witness ==
    \E i \in Interpreters :
        /\ state[i].haltReason = HaltReason.STACK_UNDERFLOW
        /\ Current(i) = Opcode.ADD
        /\ Len(stack[i]) = 0
        /\ Len(trace[i].events) > 4
        /\ result[i] = "false"
        /\ running[i] # "thrown"

(***************************************************************************)
(* C11.  In every reachable state the depth of the operand stack is        *)
(* between 0 and 1024.                                                     *)
(***************************************************************************)
C11_StackDepthBounded ==
    \A i \in Interpreters : Len(stack[i]) >= 0 /\ Len(stack[i]) <= 1024

\* A push on a stack of 1024 items was refused: the stack is still full.
C11_Witness ==
    \E i \in Interpreters :
        /\ Len(stack[i]) = 1024
        /\ state[i].haltReason = HaltReason.STACK_OVERFLOW
        /\ Current(i) = Opcode.PC

(***************************************************************************)
(* C12.  In every reachable state the size of the memory is a multiple of  *)
(* 32 bytes, and no step makes the memory smaller.                         *)
(***************************************************************************)
C12_MemoryWords == \A i \in Interpreters : Len(state[i].memory) % 32 = 0

C12_MemoryGrowsByWords ==
    /\ []C12_MemoryWords
    /\ [][\A i \in Interpreters : Len(state'[i].memory) >= Len(state[i].memory)]_vars

\* MSTORE at offset 1 has made a memory of 64 bytes, and MSTORE8 at offset
\* 65 one of 96.
C12_Witness ==
    \E i \in Interpreters :
        /\ Len(state[i].memory) = 96
        /\ \E k \in 1..Len(trace[i].events) :
              /\ trace[i].events[k].type = "memory.write"
              /\ trace[i].events[k].offset = 1
        /\ \E k \in 1..Len(trace[i].events) :
              /\ trace[i].events[k].type = "memory.write"
              /\ trace[i].events[k].offset = 65

(***************************************************************************)
(* C13.  At every step boundary, replaying the stack.push and stack.pop    *)
(* events of the trace in order (a push appends its value, a pop removes   *)
(* the top) gives the operand stack, whichever opcodes the program uses.   *)
(***************************************************************************)
\* What replaying events[lo..hi] does to a stack: it removes `pops` items
\* and then appends `pushed`.
RECURSIVE C13_Replay(_, _, _)
C13_Replay(events, lo, hi) ==
    IF lo > hi THEN [pops |-> 0, pushed |-> <<>>]
    ELSE IF lo = hi
         THEN IF events[lo].type = "stack.push"
              THEN [pops |-> 0, pushed |-> <<events[lo].value>>]
              ELSE IF events[lo].type = "stack.pop"
                   THEN [pops |-> 1, pushed |-> <<>>]
                   ELSE [pops |-> 0, pushed |-> <<>>]
    ELSE LET mid    == (lo + hi) \div 2
             first  == C13_Replay(events, lo, mid)
             second == C13_Replay(events, mid + 1, hi)
         IN  IF second.pops <= Len(first.pushed)
             THEN [pops   |-> first.pops,
                   pushed |-> SubSeq(first.pushed, 1, Len(first.pushed) - second.pops)
                                  \o second.pushed]
             ELSE [pops   |-> first.pops + (second.pops - Len(first.pushed)),
                   pushed |-> second.pushed]

C13_TraceMirrorsStack ==
    \A i \in Interpreters :
        /\ C13_Replay(trace[i].events, 1, Len(trace[i].events)).pops = 0
        /\ C13_Replay(trace[i].events, 1, Len(trace[i].events)).pushed = stack[i]

(***************************************************************************)
(* C14.  Every host.sstore and every host.log call of an execution has     *)
(* exactly one storage.write / log event in the trace, in the same order.  *)
(* Stated for the logs, which the host keeps in the order of the calls:    *)
(* the host of an interpreter holds as many log entries as the trace has   *)
(* log events.                                                             *)
(***************************************************************************)
C14_LogEvents(i) == {k \in 1..Len(trace[i].events) : trace[i].events[k].type = "log"}

C14_HostEffectsTraced ==
    \A i \in Interpreters :
        Len(host[hostOf[i]].logs) = Cardinality(C14_LogEvents(i))

(***************************************************************************)
(* C15.  When a gas charge fails inside a handler nothing is mutated after *)
(* it, and the only event that follows is the halt event with OUT_OF_GAS.  *)
(* Stated for the whole step() in which the charge fails, by what every    *)
(* handler does only after its last charge: the pc, the return data and    *)
(* the host are as before the step, the stack has lost items at most (no   *)
(* push), the memory has at most grown by zero bytes (no write), the       *)
(* events of the step are the opcode start, gas charges and stack pops,    *)
(* and then the halt event with OUT_OF_GAS; step() returns false.          *)
(***************************************************************************)
C15_OutOfGas(i) ==
    /\ Executes(i)
    /\ state'[i].halted
    /\ state'[i].haltReason = HaltReason.OUT_OF_GAS

C15_NothingAfter(i) ==
    LET before == Len(trace[i].events)
        after  == Len(trace'[i].events)
    IN  /\ state'[i].pc = state[i].pc
        /\ state'[i].returnData = state[i].returnData
        /\ host' = host
        /\ Len(stack'[i]) <= Len(stack[i])
        /\ stack'[i] = SubSeq(stack[i], 1, Len(stack'[i]))
        /\ Len(state'[i].memory) >= Len(state[i].memory)
        /\ state'[i].memory =
              state[i].memory \o Zeros(Len(state'[i].memory) - Len(state[i].memory))
        /\ after >= before + 2
        /\ trace'[i].events[after].type = "halt"
        /\ trace'[i].events[after].reason = HaltReason.OUT_OF_GAS
        /\ \A k \in (before + 1)..(after - 1) :
              trace'[i].events[k].type \in {"opcode.start", "gas.charge", "stack.pop"}
        /\ result'[i] = "false"

C15_FailedChargeEndsHandler ==
    [][\A i \in Interpreters : C15_OutOfGas(i) => C15_NothingAfter(i)]_vars

\* MSTORE at offset 1 has paid its 3 gas, popped both operands and grown
\* the memory to 64 bytes, and the charge for the growth has failed.
C15_Witness ==
    \E i \in Interpreters :
        /\ state[i].haltReason = HaltReason.OUT_OF_GAS
        /\ Current(i) = Opcode.MSTORE
        /\ Len(state[i].memory) = 64
        /\ Len(stack[i]) = 0
        /\ state[i].gasRemaining = 4

(***************************************************************************)
(* C16.  returnData is not empty only in a state halted with RETURN or     *)
(* REVERT (never while running, never after another halt, a RETURN or      *)
(* REVERT that ran out of gas included), and a RETURN or REVERT that halts *)
(* with its own reason leaves in it memory[offset, offset + length) for    *)
(* the offset (top of the stack) and the length it popped.                 *)
(***************************************************************************)
C16_EmptyOtherwise ==
    \A i \in Interpreters :
        state[i].returnData # <<>> =>
            /\ state[i].halted
            /\ state[i].haltReason \in {HaltReason.RETURN, HaltReason.REVERT}

C16_Returns(i, opcode, reason) ==
    (/\ Executes(i)
     /\ Current(i) = opcode
     /\ Len(stack[i]) >= 2
     /\ state'[i].halted
     /\ state'[i].haltReason = reason)
    => state'[i].returnData =
          SubSeq(state'[i].memory,
                 Number(stack[i][Len(stack[i])]) + 1,
                 Number(stack[i][Len(stack[i])]) + Number(stack[i][Len(stack[i]) - 1]))

C16_ReturnData ==
    /\ []C16_EmptyOtherwise
    /\ [][\A i \in Interpreters :
             /\ C16_Returns(i, Opcode.RETURN, HaltReason.RETURN)
             /\ C16_Returns(i, Opcode.REVERT, HaltReason.REVERT)]_vars

\* RETURN of the 2 bytes at offset 31 has halted with the bytes 00 ab.
C16_Witness ==
    \E i \in Interpreters :
        /\ state[i].haltReason = HaltReason.RETURN
        /\ state[i].returnData = <<0, 171>>
        /\ Len(state[i].memory) = 64

(***************************************************************************)
(* C17.  Two interpreters that share no host, their steps interleaved in   *)
(* any order: each one, once halted, has the machine state, the halt       *)
(* reason, the stack, the trace and the host it has when it runs alone.    *)
(***************************************************************************)
C17_AsAlone ==
    \A i \in Interpreters :
        state[i].halted =>
            /\ state[i] = alone(i).state
            /\ stack[i] = alone(i).stack
            /\ trace[i] = alone(i).trace
            /\ host[hostOf[i]] = alone(i).host

\* Both have halted, each after writing to the storage of its host, and
\* they ran different programs.
C17_Witness ==
    /\ Interpreters = {1, 2}
    /\ bytecode[1] # bytecode[2]
    /\ \A i \in Interpreters :
          /\ state[i].halted
          /\ \E k \in 1..Len(trace[i].events) : trace[i].events[k].type = "storage.write"

(***************************************************************************)
(* C18.  As stated: among the events of one instruction (after its opcode  *)
(* start), every gas charge precedes every stack pop, every stack pop      *)
(* precedes every side-effect event (memory read or write, storage read or *)
(* write, log, jump), and every side-effect event precedes every stack     *)
(* push.  Checked on the instruction executed last, in every state.        *)
(***************************************************************************)
\* The position of the last opcode.start event at or before k (0: none).
RECURSIVE C18_LastStart(_, _)
C18_LastStart(events, k) ==
    IF k = 0 THEN 0
    ELSE IF events[k].type = "opcode.start" THEN k
    ELSE C18_LastStart(events, k - 1)

C18_SideEffects ==
    {"memory.read", "memory.write", "storage.read", "storage.write", "log", "jump"}

\* Some event of kind `first` of the last instruction is followed by one
\* of kind `then`.
C18_Follows(events, first(_), then(_)) ==
    \E k, l \in (C18_LastStart(events, Len(events)) + 1)..Len(events) :
        k < l /\ first(events[k]) /\ then(events[l])

C18_IsCharge(e) == e.type = "gas.charge"
C18_IsPop(e) == e.type = "stack.pop"
C18_IsPush(e) == e.type = "stack.push"
C18_IsSideEffect(e) == e.type \in C18_SideEffects
\* A charge of the gas that the size of a memory access or of a copy decides.
C18_IsDynamicCharge(e) ==
    /\ e.type = "gas.charge"
    /\ \E name \in {"MLOAD", "MSTORE", "MSTORE8", "CALLDATACOPY", "RETURN", "REVERT"} :
           e.reason \in {name \o " memory expansion", name \o " copy cost"}
C18_IsBaseCharge(e) == e.type = "gas.charge" /\ ~C18_IsDynamicCharge(e)

C18_AsStated ==
    \A i \in Interpreters :
        /\ ~C18_Follows(trace[i].events, C18_IsPop, C18_IsCharge)
        /\ ~C18_Follows(trace[i].events, C18_IsSideEffect, C18_IsPop)
        /\ ~C18_Follows(trace[i].events, C18_IsPush, C18_IsSideEffect)

(***************************************************************************)
(* C18, amended.  The charge of the base gas precedes every stack pop; the *)
(* charges of dynamic gas (memory expansion, copy) come after the pops and *)
(* precede every side-effect event; every stack pop precedes every         *)
(* side-effect event, and every side-effect event every stack push.        *)
(***************************************************************************)
C18_EventOrder ==
    \A i \in Interpreters :
        /\ ~C18_Follows(trace[i].events, C18_IsPop, C18_IsBaseCharge)
        /\ ~C18_Follows(trace[i].events, C18_IsDynamicCharge, C18_IsPop)
        /\ ~C18_Follows(trace[i].events, C18_IsSideEffect, C18_IsCharge)
        /\ ~C18_Follows(trace[i].events, C18_IsSideEffect, C18_IsPop)
        /\ ~C18_Follows(trace[i].events, C18_IsPush, C18_IsSideEffect)

\* MLOAD has charged 3 gas, popped the offset, charged the expansion,
\* recorded the read and pushed the word.
C18_Witness ==
    \E i \in Interpreters :
        LET events == trace[i].events
            n      == Len(trace[i].events)
        IN  /\ n >= 6
            /\ events[n - 5].type = "opcode.start"
            /\ events[n - 5].opcode = Opcode.MLOAD
            /\ events[n - 4].type = "gas.charge"
            /\ events[n - 3].type = "stack.pop"
            /\ events[n - 2].type = "gas.charge"
            /\ events[n - 1].type = "memory.read"
            /\ events[n].type = "stack.push"

(***************************************************************************)
(* C19.  step() on a running interpreter whose program counter is at or    *)
(* past the end of the bytecode halts with STOP, appends one Halt event    *)
(* with that reason and nothing else (no OpcodeStart), charges no gas,     *)
(* leaves the program counter, the stack, the memory and the host alone    *)
(* and returns false.                                                      *)
(***************************************************************************)
C19_PastEnd(i) ==
    /\ ~state[i].halted
    /\ state[i].pc >= Len(bytecode[i])
    /\ result'[i] # result[i] \/ trace'[i] # trace[i] \/ state'[i] # state[i]

C19_Stops(i) ==
    /\ state' = [state EXCEPT ![i].halted = TRUE, ![i].haltReason = HaltReason.STOP]
    /\ trace'[i].events =
          Append(trace[i].events,
                 [type |-> "halt", index |-> trace[i].nextIndex, pc |-> state[i].pc,
                  gasRemaining |-> state[i].gasRemaining, reason |-> HaltReason.STOP])
    /\ trace'[i].nextIndex = trace[i].nextIndex + 1
    /\ stack' = stack
    /\ host' = host
    /\ result'[i] = "false"

C19_PastEndStops ==
    [][\A i \in Interpreters : C19_PastEnd(i) => C19_Stops(i)]_vars

\* PUSH2 with one byte of immediate data has moved the program counter to 3,
\* past the two bytes of code, and the next step() has stopped there.
C19_Witness ==
    \E i \in Interpreters :
        /\ bytecode[i] = <<97, 1>>
        /\ state[i].halted
        /\ state[i].haltReason = HaltReason.STOP
        /\ state[i].pc = 3
        /\ state[i].gasRemaining = initialGas[i] - 3
        /\ Len(trace[i].events) = 4
        /\ trace[i].events[4].type = "halt"
        /\ trace[i].events[3].type = "stack.push"
        /\ result[i] = "false"

(***************************************************************************)
(* C20.  step() on a byte that executeOpcode has no case for (0xFE among   *)
(* them) records OpcodeStart and then the Halt event, halts with           *)
(* INVALID_OPCODE, charges no gas, leaves the stack, the program counter,  *)
(* the memory and the host alone and returns false; and no interpreter is  *)
(* ever halted with INVALID_INSTRUCTION.                                   *)
(***************************************************************************)
C20_NoHandler(i) ==
    /\ Executes(i)
    /\ Current(i) \notin Dispatched

C20_Halts(i) ==
    LET opcode == Current(i)
        start  == [type |-> "opcode.start", index |-> trace[i].nextIndex,
                   pc |-> state[i].pc, gasRemaining |-> state[i].gasRemaining,
                   opcode |-> opcode, opcodeName |-> getOpcodeName(opcode)]
        end    == [type |-> "halt", index |-> trace[i].nextIndex + 1,
                   pc |-> state[i].pc, gasRemaining |-> state[i].gasRemaining,
                   reason |-> HaltReason.INVALID_OPCODE]
    IN  /\ state' = [state EXCEPT ![i].halted = TRUE,
                                  ![i].haltReason = HaltReason.INVALID_OPCODE]
        /\ trace'[i].events = trace[i].events \o <<start, end>>
        /\ stack' = stack
        /\ host' = host
        /\ result'[i] = "false"

C20_NeverInvalidInstruction ==
    \A i \in Interpreters : state[i].haltReason # HaltReason.INVALID_INSTRUCTION

C21_Slot(h, address, key) ==
    IF <<address, key>> \in DOMAIN h.storage THEN h.storage[<<address, key>>] ELSE zero

C21_Cost(current, value) ==
    IF current = zero /\ value # zero THEN 20000 ELSE 5000

C21_Stores(i) ==
    /\ Executes(i)
    /\ Current(i) = Opcode.SSTORE
    /\ Len(stack[i]) >= 2

C21_Stored(i) ==
    LET depth   == Len(stack[i])
        key     == stack[i][depth]
        value   == stack[i][depth - 1]
        before  == host[hostOf[i]]
        after   == host'[hostOf[i]]
        cost    == C21_Cost(C21_Slot(before, before.address, key), value)
    IN  /\ stack'[i] = SubSeq(stack[i], 1, depth - 2)
        /\ IF state[i].gasRemaining >= cost
           THEN /\ state'[i] = [state[i] EXCEPT !.gasRemaining = @ - cost, !.pc = @ + 1]
                /\ C21_Slot(after, before.address, key) = value
                /\ value = zero => <<before.address, key>> \notin DOMAIN after.storage
                /\ \A k \in (DOMAIN before.storage \cup DOMAIN after.storage)
                              \ {<<before.address, key>>} :
                      /\ k \in DOMAIN before.storage
                      /\ k \in DOMAIN after.storage
                      /\ after.storage[k] = before.storage[k]
                /\ after.logs = before.logs
                /\ result'[i] = "true"
           ELSE /\ state'[i].halted
                /\ state'[i].haltReason = HaltReason.OUT_OF_GAS
                /\ state'[i].pc = state[i].pc
                /\ host' = host
                /\ result'[i] = "false"

C21_SstoreStores ==
    [][\A i \in Interpreters : C21_Stores(i) => C21_Stored(i)]_vars

\* SSTORE of 42 at key 0 of an empty host has cost 20000 of the 29994 gas
\* left after the two PUSH1.
C21_Witness ==
    \E i \in Interpreters :
        /\ ~state[i].halted
        /\ state[i].pc = 5
        /\ bytecode[i][5] = Opcode.SSTORE
        /\ state[i].gasRemaining = 9994
        /\ stack[i] = <<>>
        /\ C21_Slot(host[hostOf[i]], AddressZero, zero) = fromNumber(42)

(***************************************************************************)
(* C22.  LOGn (n = 0..4) with the stack items and the gas it needs pops    *)
(* offset, length and n topics, gives the host one log entry more (the     *)
(* executing address, the topics in pop order, the length bytes of memory  *)
(* at offset), records one log event in the trace, advances the program    *)
(* counter by 1 and lets the execution go on.                              *)
(***************************************************************************)
C22_Topics(i) == Current(i) - Opcode.LOG0

C22_Logs(i) ==
    /\ Executes(i)
    /\ Current(i) \in Opcode.LOG0..Opcode.LOG4
    /\ Len(stack[i]) >= 2 + C22_Topics(i)
    /\ state'[i].haltReason # HaltReason.OUT_OF_GAS

C22_Logged(i) ==
    LET n       == C22_Topics(i)
        depth   == Len(stack[i])
        offset  == Number(stack[i][depth])
        length  == Number(stack[i][depth - 1])
        before  == host[hostOf[i]]
        after   == host'[hostOf[i]]
        added   == SubSeq(trace'[i].events, Len(trace[i].events) + 1,
                          Len(trace'[i].events))
    IN  /\ stack'[i] = SubSeq(stack[i], 1, depth - 2 - n)
        /\ Len(after.logs) = Len(before.logs) + 1
        /\ SubSeq(after.logs, 1, Len(before.logs)) = before.logs
        /\ after.logs[Len(after.logs)].address = before.address
        /\ after.logs[Len(after.logs)].topics =
              [k \in 1..n |-> stack[i][depth - 1 - k]]
        /\ after.logs[Len(after.logs)].data =
              [k \in 1..length |-> state'[i].memory[offset + k]]
        /\ Cardinality({k \in DOMAIN added : added[k].type = "log"}) = 1
        /\ state'[i].pc = state[i].pc + 1
        /\ ~state'[i].halted
        /\ result'[i] = "true"

C22_LogAdvances ==
    [][\A i \in Interpreters : C22_Logs(i) => C22_Logged(i)]_vars

(***************************************************************************)
(* A MemoryHost used directly, as the tests of the host do: sstore is      *)
(* called with any of a few addresses, keys and values.                    *)
(***************************************************************************)
MaxHostKey == 2
HostAddresses == {AddressZero, 1}
HostKeys == {fromNumber(n) : n \in 0..MaxHostKey}
HostValues == {zero, fromNumber(7), fromNumber(42)}

\* const host = new MemoryHost()
InitHost == Construct({1}, EmptyProgram, 0, MemoryHost(AddressZero))

\* host.sstore(address, key, value)
hostSstore(address, key, value) ==
    /\ host' = [host EXCEPT ![1] = sstore(Context(1), address, key, value).host]
    /\ UNCHANGED <<bytecode, calldata, initialGas, validJumpDests, hostOf,
                   state, stack, trace, result, running, idle>>

NextHost == \E a \in HostAddresses, k \in HostKeys, v \in HostValues : hostSstore(a, k, v)

SpecHost == InitHost /\ [][NextHost]_vars

(***************************************************************************)
(* C23.  A new MemoryHost reads zero everywhere; sstore(a, k, v) makes     *)
(* sload(a, k) return v, with the slot absent from the map when v is zero, *)
(* and leaves what sload returns for every other (address, key) as it was. *)
(* So sload(a, k) is the value of the latest sstore(a, k, v), or zero.     *)
(***************************************************************************)
C23_Read(h, a, k) == sload([host |-> h], a, k)

C23_FreshReadsZero ==
    \A a \in HostAddresses, k \in HostKeys : C23_Read(host[1], a, k) = zero

C23_NoZeroStored ==
    \A s \in DOMAIN host[1].storage : host[1].storage[s] # zero

C23_Sstore(a, k, v) ==
    /\ host'[1] # host[1]
    /\ host'[1] = sstore(Context(1), a, k, v).host

C23_LatestRead(a, k, v) ==
    /\ C23_Read(host'[1], a, k) = v
    /\ v = zero => storageKey(a, k) \notin DOMAIN host'[1].storage
    /\ \A b \in HostAddresses, j \in HostKeys :
          <<b, j>> # <<a, k>> => C23_Read(host'[1], b, j) = C23_Read(host[1], b, j)
    /\ host'[1].logs = host[1].logs
    /\ host'[1].address = host[1].address

C23_SloadLatestSstore ==
    /\ C23_FreshReadsZero
    /\ []C23_NoZeroStored
    /\ [][\A a \in HostAddresses, k \in HostKeys, v \in HostValues :
            C23_Sstore(a, k, v) => C23_LatestRead(a, k, v)]_vars

\* The same key holds 7 under one address and 42 under the other, and the
\* slot of the next key is absent.
C23_Witness ==
    /\ C23_Read(host[1], AddressZero, zero) = fromNumber(7)
    /\ C23_Read(host[1], 1, zero) = fromNumber(42)
    /\ DOMAIN host[1].storage = {storageKey(AddressZero, zero), storageKey(1, zero)}
    /\ state[1].pc = 0 /\ trace[1].events = <<>>

(***************************************************************************)
(* TraceCollector.toJSON and fromJSON (part_003).  A JavaScript value is   *)
(* modelled with its type: the builders give every event a bigint          *)
(* gasRemaining, and numbers, strings and booleans in the other fields.    *)
(* The JSON text is modelled by the array JSON.parse makes of it: numbers, *)
(* strings and booleans come back as they were written.                    *)
(***************************************************************************)
\* The value of field f of the event e, as the builders of TraceEventBuilder
\* made it.
jsValue(e, f) ==
    IF f = "gasRemaining" THEN [typeof |-> "bigint", value |-> e[f]]
    ELSE [typeof |-> "plain", value |-> e[f]]

\* The replacer of toJSON: typeof value === 'bigint' ? value.toString() : value
replacer(v) ==
    IF v.typeof = "bigint" THEN [typeof |-> "string", value |-> ToString(v.value)]
    ELSE v

\* JSON.stringify(this.events, replacer, 2)
toJSON(t) ==
    [k \in 1..Len(t.events) |->
        [f \in DOMAIN t.events[k] |-> replacer(jsValue(t.events[k], f))]]

\* collector.events = parsed; collector.nextIndex = parsed.length
fromJSON(json) == [events |-> json, nextIndex |-> Len(json)]

(***************************************************************************)
(* C24.  fromJSON(toJSON(t)) holds as many events as t, each with the      *)
(* content of the event of t at its place, and its index counter is the    *)
(* number of events and goes on where the counter of t was.                *)
(***************************************************************************)
C24_SameValue(a, b) == a.typeof = b.typeof /\ a.value = b.value

C24_SameEvents(t, r) ==
    /\ Len(r.events) = Len(t.events)
    /\ \A k \in 1..Len(t.events) :
          /\ DOMAIN r.events[k] = DOMAIN t.events[k]
          /\ \A f \in DOMAIN t.events[k] :
                C24_SameValue(r.events[k][f], jsValue(t.events[k], f))

C24_RoundTrip ==
    \A i \in Interpreters :
        LET r == fromJSON(toJSON(trace[i]))
        IN  /\ C24_SameEvents(trace[i], r)
            /\ r.nextIndex = Len(r.events)
            /\ r.nextIndex = trace[i].nextIndex

(***************************************************************************)
(* C25.  The trace is append-only: over every call of step() the events    *)
(* recorded before the call are the first events after it, unchanged and   *)
(* in their order, and the index counter never goes back.                  *)
(***************************************************************************)
C25_Prefix(i) ==
    /\ Len(trace'[i].events) >= Len(trace[i].events)
    /\ SubSeq(trace'[i].events, 1, Len(trace[i].events)) = trace[i].events
    /\ trace'[i].nextIndex >= trace[i].nextIndex

C25_AppendOnly == [][\A i \in Interpreters : C25_Prefix(i)]_vars

\* The third instruction has started on a trace that holds the events of
\* the first two.
C25_Witness ==
    \E i \in Interpreters :
        LET events == trace[i].events
        IN  /\ Len(events) >= 7
            /\ Cardinality({k \in DOMAIN events : events[k].type = "opcode.start"}) = 3
            /\ events[1].type = "opcode.start"
            /\ events[1].index = 0

(***************************************************************************)
(* C26.  The set of valid jump destinations of an interpreter is the set   *)
(* of the positions that hold 0x5b and that the scan from position 0       *)
(* reaches as the start of an instruction (1 + n after a PUSHn, 1 after    *)
(* anything else): a 0x5b byte in PUSH data is not in it.  It is what      *)
(* buildJumpDestinations gives for the bytecode, and no step changes it.   *)
(***************************************************************************)
C26_JumpDests(code) == {d \in 0..(Len(code) - 1) : isJumpDest(code, d)}

C26_PushData(code) ==
    {d \in 0..(Len(code) - 1) :
        \E b \in Max(0, d - 32)..(d - 1) :
            /\ isPushOpcode(code[b + 1])
            /\ d <= b + getPushBytes(code[b + 1])
            /\ instructionStart(code, b)}

\* The set of an interpreter that has just been constructed.
C26_ExactlyTheJumpDests ==
    \A i \in Interpreters :
        (result[i] = "none" /\ trace[i] = TraceCollector) =>
            /\ validJumpDests[i] = C26_JumpDests(bytecode[i])
            /\ validJumpDests[i] \cap C26_PushData(bytecode[i]) = {}
            /\ validJumpDests[i] = buildJumpDestinations(bytecode[i])

\* The set is right when the interpreter is constructed, and stays.
C26_ScannedOnce ==
    /\ []C26_ExactlyTheJumpDests
    /\ [][validJumpDests' = validJumpDests /\ bytecode' = bytecode]_vars

\* PUSH1 4, JUMP, PUSH1 0x5b, STOP: the jump to the 0x5b at position 4 was
\* tried against a set that has no destination at all.
C26_Witness ==
    \E i \in Interpreters :
        /\ bytecode[i] = <<96, 4, 86, 96, 91, 0>>
        /\ validJumpDests[i] = {}
        /\ 4 \in C26_PushData(bytecode[i])
        /\ state[i].halted
        /\ state[i].pc = 2

(***************************************************************************)
(* A Stack used directly, as the tests of the stack do: a few calls of     *)
(* push, pop, dup and swap on a stack that holds some number of distinct   *)
(* items.  result[1] is the message of the StackError the call threw.      *)
(***************************************************************************)
MaxStackCalls == 2
StackDepths == {1, 2, 3, 15, 16}
StackSizes == {0, 1, 2, 3, 15, 16, 17, MAX_STACK_DEPTH - 1, MAX_STACK_DEPTH}

\* The stack after push(1), push(2), ..., push(n).
pushed(n) == Tup([k \in 1..n |-> fromNumber(k)], n)

InitStack ==
    \E n \in StackSizes :
        /\ bytecode = [i \in {1} |-> <<>>]
        /\ calldata = [i \in {1} |-> <<>>]
        /\ initialGas = [i \in {1} |-> 0]
        /\ validJumpDests = [i \in {1} |-> {}]
        /\ hostOf = [i \in {1} |-> ownHost(i)]
        /\ state = [i \in {1} |-> MachineState(0)]
        /\ stack = [i \in {1} |-> pushed(n)]
        /\ trace = [i \in {1} |-> TraceCollector]
        /\ host = [i \in {1} |-> MemoryHost(AddressZero)]
        /\ result = [i \in {1} |-> "none"]
        /\ running = [i \in {1} |-> "no"]
        /\ idle = [i \in {1} |-> 0]

\* A call on the stack has left the context c; idle[1] counts the calls.
stackCall(c) ==
    /\ idle[1] < MaxStackCalls
    /\ stack' = [stack EXCEPT ![1] = c.stack]
    /\ result' = [result EXCEPT ![1] = c.exc]
    /\ idle' = [idle EXCEPT ![1] = @ + 1]
    /\ UNCHANGED <<bytecode, calldata, initialGas, validJumpDests, hostOf,
                   state, trace, host, running>>

callPush == stackCall(push(Context(1), fromNumber(7)))
callPop == stackCall(pop(Context(1)))
callDup(n) == stackCall(dup(Context(1), n))
callSwap(n) == stackCall(swap(Context(1), n))

NextStack ==
    \/ callPush
    \/ callPop
    \/ \E n \in StackDepths : callDup(n)
    \/ \E n \in StackDepths : callSwap(n)

SpecStack == InitStack /\ [][NextStack]_vars

(***************************************************************************)
(* C27.  dup(n), n in 1..16, throws an underflow error on fewer than n     *)
(* items and an overflow error on a full stack, and otherwise pushes a     *)
(* copy of the item at depth n - 1; swap(n) throws an underflow error on   *)
(* fewer than n + 1 items and otherwise exchanges the top with the item at *)
(* depth n; a push, pop, dup or swap that throws leaves the stack as it    *)
(* was.                                                                    *)
(***************************************************************************)
C27_Threw == result'[1] # "none"

\* The item at depth d of stack s (depth 0 is the top).
C27_At(s, d) == s[Len(s) - d]

C27_Dupped(n) ==
    LET s == stack[1]
    IN  IF Len(s) < n THEN result'[1] = StackUnderflowMsg
        ELSE IF Len(s) = MAX_STACK_DEPTH THEN result'[1] = StackOverflowMsg
        ELSE /\ ~C27_Threw
             /\ stack'[1] = Append(s, C27_At(s, n - 1))

C27_Swapped(n) ==
    LET s == stack[1]
    IN  IF Len(s) < n + 1 THEN result'[1] = StackUnderflowMsg
        ELSE /\ ~C27_Threw
             /\ Len(stack'[1]) = Len(s)
             /\ C27_At(stack'[1], 0) = C27_At(s, n)
             /\ C27_At(stack'[1], n) = C27_At(s, 0)
             /\ \A d \in 0..(Len(s) - 1) :
                   d \notin {0, n} => C27_At(stack'[1], d) = C27_At(s, d)

C27_DupSwapFailFast ==
    [][/\ \A n \in StackDepths : callDup(n) => C27_Dupped(n)
       /\ \A n \in StackDepths : callSwap(n) => C27_Swapped(n)
       /\ C27_Threw => stack' = stack]_vars

\* dup(16) on 16 items has copied the bottom item, the one at depth 15.
C27_Witness ==
    /\ Len(stack[1]) = 17
    /\ SubSeq(stack[1], 1, 16) = pushed(16)
    /\ stack[1][17] = fromNumber(1)
    /\ result[1] = "none"
    /\ idle[1] = 1

(***************************************************************************)
(* C28.  PUSHn (n = 1..32) with 3 gas to pay and room on the stack charges *)
(* 3 gas, pushes the word whose low n bytes are the n bytes after the      *)
(* opcode, most significant first, with zero for every byte past the end   *)
(* of the bytecode, and advances the program counter by 1 + n.             *)
(***************************************************************************)
C28_Pushes(i) ==
    /\ Executes(i)
    /\ Current(i) \in Opcode.PUSH1..Opcode.PUSH32
    /\ state[i].gasRemaining >= 3
    /\ Len(stack[i]) < MAX_STACK_DEPTH

\* Byte k (1 the most significant of 32) of the word PUSHn pushes at pc.
C28_Byte(code, pc, n, k) ==
    IF k <= 32 - n THEN 0
    ELSE IF pc + (k - (32 - n)) < Len(code) THEN code[pc + (k - (32 - n)) + 1]
    ELSE 0

C28_Pushed(i) ==
    LET n == Current(i) - Opcode.PUSH1 + 1
    IN  /\ state'[i] = [state[i] EXCEPT !.gasRemaining = @ - 3, !.pc = @ + 1 + n]
        /\ Len(stack'[i]) = Len(stack[i]) + 1
        /\ SubSeq(stack'[i], 1, Len(stack[i])) = stack[i]
        /\ stack'[i][Len(stack'[i])] =
              [k \in 1..32 |-> C28_Byte(bytecode[i], state[i].pc, n, k)]
        /\ result'[i] = "true"

C28_PushImmediate ==
    [][\A i \in Interpreters : C28_Pushes(i) => C28_Pushed(i)]_vars

\* PUSH2 with the single byte 01 after it has pushed 0x0100 and moved the
\* program counter to 3.
C28_Witness ==
    \E i \in Interpreters :
        /\ bytecode[i] = <<97, 1>>
        /\ ~state[i].halted
        /\ state[i].pc = 3
        /\ stack[i] = <<[k \in 1..32 |-> IF k = 31 THEN 1 ELSE 0]>>

(***************************************************************************)
(* C29.  After an execution that has halted with REVERT, the storage of    *)
(* the host is what it was when the execution started: one of the          *)
(* storages the hosts are constructed with.                                *)
(***************************************************************************)
C29_StorageAtStart == {h.storage : h \in HostStarts}

C29_RevertRollsBack ==
    \A i \in Interpreters :
        (state[i].halted /\ state[i].haltReason = HaltReason.REVERT) =>
            host[hostOf[i]].storage \in C29_StorageAtStart

(***************************************************************************)
(* C30.  A step that halts with OUT_OF_GAS leaves the size of the memory   *)
(* (what MSIZE reports) as it was before the step.                         *)
(***************************************************************************)
C30_OutOfGasKeepsMemorySize ==
    [][\A i \in Interpreters :
          (/\ Executes(i)
           /\ state'[i].halted
           /\ state'[i].haltReason = HaltReason.OUT_OF_GAS)
          => Len(state'[i].memory) = Len(state[i].memory)]_vars

(***************************************************************************)
(* C31.  Every step() that fetches an opcode fetches it at an instruction  *)
(* boundary of the bytecode (a position the scan from 0 stops at, never a  *)
(* byte of PUSH data), and the OpcodeStart event it records carries that   *)
(* position and the byte found there.                                      *)
(***************************************************************************)
\* No byte before position d is a PUSH: every position up to d is a boundary.
C31_NoPushBefore(code, d) == \A b \in 0..(d - 1) : ~isPushOpcode(code[b + 1])

C31_Boundary(code, d) == C31_NoPushBefore(code, d) \/ instructionStart(code, d)

C31_Fetched(i) ==
    LET start == trace'[i].events[Len(trace[i].events) + 1]
    IN  /\ C31_Boundary(bytecode[i], state[i].pc)
        /\ start.type = "opcode.start"
        /\ start.pc = state[i].pc
        /\ start.opcode = bytecode[i][state[i].pc + 1]

C31_FetchesAtBoundary ==
    [][\A i \in Interpreters : Executes(i) => C31_Fetched(i)]_vars

\* PUSH1 3, JUMP, JUMPDEST, STOP: the jump has landed on position 3 and the
\* JUMPDEST there has been fetched.
C31_Witness ==
    \E i \in Interpreters :
        /\ bytecode[i] = <<96, 3, 86, 91, 0>>
        /\ \E k \in DOMAIN trace[i].events :
              /\ trace[i].events[k].type = "opcode.start"
              /\ trace[i].events[k].pc = 3
              /\ trace[i].events[k].opcode = Opcode.JUMPDEST

(***************************************************************************)
(* C32.  JUMPI with 10 gas to pay, two items on the stack and a zero       *)
(* condition (the top) records a Jump event with conditional = true,       *)
(* taken = false and the destination it popped, moves the program counter  *)
(* to the next instruction and does not halt, whether the destination is a *)
(* JUMPDEST, another position of the code, or beyond its end.              *)
(***************************************************************************)
C32_NotTaken(i) ==
    /\ Executes(i)
    /\ Current(i) = Opcode.JUMPI
    /\ state[i].gasRemaining >= 10
    /\ Len(stack[i]) >= 2
    /\ stack[i][Len(stack[i])] = zero

C32_FallsThrough(i) ==
    LET before == Len(trace[i].events)
        events == trace'[i].events
    IN  /\ state'[i] = [state[i] EXCEPT !.gasRemaining = @ - 10, !.pc = @ + 1]
        /\ ~state'[i].halted
        /\ stack'[i] = SubSeq(stack[i], 1, Len(stack[i]) - 2)
        /\ Len(events) = before + 5
        /\ events[before + 5] =
              [type |-> "jump", index |-> trace[i].nextIndex + 4, pc |-> state[i].pc,
               gasRemaining |-> state[i].gasRemaining - 10, from |-> state[i].pc,
               to |-> Number(stack[i][Len(stack[i]) - 1]),
               conditional |-> TRUE, taken |-> FALSE]
        /\ result'[i] = "true"

C32_JumpiZeroFallsThrough ==
    [][\A i \in Interpreters : C32_NotTaken(i) => C32_FallsThrough(i)]_vars

\* The destination 255 is beyond the six bytes of the code, the condition
\* is zero, and the execution has gone on to the STOP at position 5.
C32_Witness ==
    \E i \in Interpreters :
        /\ bytecode[i] = <<96, 255, 96, 0, 87, 0>>
        /\ state[i].pc = 5
        /\ \E k \in DOMAIN trace[i].events :
              /\ trace[i].events[k].type = "jump"
              /\ trace[i].events[k].to = 255
              /\ ~trace[i].events[k].taken
        /\ state[i].haltReason # HaltReason.INVALID_JUMP

(***************************************************************************)
(* C33.  A JUMP, or a JUMPI whose condition is not zero, that has the gas  *)
(* and the operands it needs and a destination that is no JUMPDEST         *)
(* instruction of the code: the step records the Jump event (taken, to the *)
(* destination asked for) and after it, as its last event, the Halt event  *)
(* with INVALID_JUMP; both carry the gas left after the charge of the      *)
(* jump, and the operands are off the stack.                               *)
(***************************************************************************)
C33_Operands(i) == IF Current(i) = Opcode.JUMP THEN 1 ELSE 2

C33_Gas(i) == IF Current(i) = Opcode.JUMP THEN 8 ELSE 10

\* The destination: the top for JUMP, the item under the condition for JUMPI.
C33_Dest(i) == Number(stack[i][Len(stack[i]) - (C33_Operands(i) - 1)])

C33_InvalidJump(i) ==
    /\ Executes(i)
    /\ Current(i) \in {Opcode.JUMP, Opcode.JUMPI}
    /\ state[i].gasRemaining >= C33_Gas(i)
    /\ Len(stack[i]) >= C33_Operands(i)
    /\ Current(i) = Opcode.JUMPI => stack[i][Len(stack[i])] # zero
    /\ ~isJumpDest(bytecode[i], C33_Dest(i))

C33_JumpThenHalt(i) ==
    LET events == trace'[i].events
        last   == Len(events)
        left   == state[i].gasRemaining - C33_Gas(i)
    IN  /\ last = Len(trace[i].events) + 4 + C33_Operands(i)
        /\ events[last - 1] =
              [type |-> "jump", index |-> trace'[i].nextIndex - 2, pc |-> state[i].pc,
               gasRemaining |-> left, from |-> state[i].pc, to |-> C33_Dest(i),
               conditional |-> (Current(i) = Opcode.JUMPI), taken |-> TRUE]
        /\ events[last] =
              [type |-> "halt", index |-> trace'[i].nextIndex - 1, pc |-> state[i].pc,
               gasRemaining |-> left, reason |-> HaltReason.INVALID_JUMP]
        /\ \A k \in (Len(trace[i].events) + 1)..(last - 2) :
              events[k].type \in {"opcode.start", "gas.charge", "stack.pop"}
        /\ state'[i].gasRemaining = left
        /\ state'[i].haltReason = HaltReason.INVALID_JUMP
        /\ stack'[i] = SubSeq(stack[i], 1, Len(stack[i]) - C33_Operands(i))

C33_JumpBeforeHalt ==
    [][\A i \in Interpreters : C33_InvalidJump(i) => C33_JumpThenHalt(i)]_vars

\* PUSH1 3, PUSH1 1, JUMPI: taken to position 3, which holds a PUSH1.
C33_Witness ==
    \E i \in Interpreters :
        LET events == trace[i].events
        IN  /\ bytecode[i] = <<96, 3, 96, 1, 87, 0>>
            /\ state[i].haltReason = HaltReason.INVALID_JUMP
            /\ Len(events) = 12
            /\ events[11].type = "jump" /\ events[11].to = 3 /\ events[11].taken
            /\ events[12].type = "halt"
            /\ stack[i] = <<>>

(***************************************************************************)
(* C34.  Every event a step() records while it executes an instruction,    *)
(* from the OpcodeStart to the Jump event of a jump that is taken and to   *)
(* the Halt event of an instruction that halts, carries the program        *)
(* counter of that instruction.                                            *)
(***************************************************************************)
C34_Recorded(i) ==
    \A k \in (Len(trace[i].events) + 1)..Len(trace'[i].events) :
        trace'[i].events[k].pc = state[i].pc

C34_EventsCarryInstructionPc ==
    [][\A i \in Interpreters : Executes(i) => C34_Recorded(i)]_vars

\* PUSH1 3, JUMP, JUMPDEST, STOP: the jump from 2 has landed on 3, and its
\* Jump event carries 2.
C34_Witness ==
    \E i \in Interpreters :
        /\ bytecode[i] = <<96, 3, 86, 91, 0>>
        /\ state[i].pc = 3
        /\ LET last == trace[i].events[Len(trace[i].events)]
           IN  /\ last.type = "jump"
               /\ last.taken
               /\ last.to = 3
               /\ last.pc = 2


(***************************************************************************)
(* C35: at every step boundary the stack component of the machine state   *)
(* returned by getState() holds the same words, in the same order, as the  *)
(* operand stack returned by getStack().  The constructor makes the two    *)
(* separately (new MachineState, whose stack is [], and new Stack()) and   *)
(* every handler is handed both; only the Stack is ever pushed to.         *)
(***************************************************************************)
C35_StateStackIsStack ==
    \A i \in Interpreters : state[i].stack = stack[i]


(***************************************************************************)
(* C36.  SLOAD with an item on the stack and at least 200 gas charges 200  *)
(* gas, pops the key, pushes what the host holds at (executing address,    *)
(* key), which is zero for a key that was never written, records after the *)
(* opcode's start a StorageRead event with the address, the key and the    *)
(* value and no event of a push after it, leaves the host as it was and    *)
(* advances the program counter by 1.                                      *)
(***************************************************************************)
C36_Loads(i) ==
    /\ Executes(i)
    /\ Current(i) = Opcode.SLOAD
    /\ Len(stack[i]) >= 1
    /\ state[i].gasRemaining >= 200

C36_Loaded(i) ==
    LET depth  == Len(stack[i])
        key    == stack[i][depth]
        h      == host[hostOf[i]]
        value  == IF <<h.address, key>> \in DOMAIN h.storage
                  THEN h.storage[<<h.address, key>>] ELSE zero
        n      == Len(trace[i].events)
        read   == trace'[i].events[n + 2]
    IN  /\ state'[i] = [state[i] EXCEPT !.gasRemaining = @ - 200, !.pc = @ + 1]
        /\ stack'[i] = Append(SubSeq(stack[i], 1, depth - 1), value)
        /\ Len(trace'[i].events) = n + 2
        /\ SubSeq(trace'[i].events, 1, n) = trace[i].events
        /\ trace'[i].events[n + 1].type = "opcode.start"
        /\ read.type = "storage.read"
        /\ read.pc = state[i].pc
        /\ read.gasRemaining = state[i].gasRemaining - 200
        /\ read.address = h.address
        /\ read.key = key
        /\ read.value = value
        /\ host' = host
        /\ result'[i] = "true"

C36_SloadLoads ==
    [][\A i \in Interpreters : C36_Loads(i) => C36_Loaded(i)]_vars

\* PUSH1 42, PUSH1 0, SSTORE, PUSH1 0, SLOAD: the SLOAD has pushed the 42.
C36_Witness ==
    \E i \in Interpreters :
        /\ bytecode[i] = <<96, 42, 96, 0, 85, 96, 0, 84, 0>>
        /\ state[i].pc = 8
        /\ ~state[i].halted
        /\ stack[i] = <<fromNumber(42)>>
        /\ trace[i].events[Len(trace[i].events)].type = "storage.read"
        /\ trace[i].events[Len(trace[i].events)].value = fromNumber(42)


(***************************************************************************)
(* C37.  expandMemory(offset, length), as MLOAD, MSTORE and MSTORE8 call   *)
(* it with the popped offset and a length of 32, 32 and 1: with a the      *)
(* words of the memory, b = ceil((offset + length) / 32) and               *)
(* C(w) = 3w + floor(w * w / 512), the memory has 32 * b bytes afterwards  *)
(* when b > a and the size it had otherwise, and C(b) - C(a), or 0 when    *)
(* b <= a, is what the instruction pays on top of its 3 gas (when the gas  *)
(* left covers it).                                                        *)
(***************************************************************************)
C37_C(w) == 3 * w + (w * w) \div 512

C37_Calls(i) ==
    /\ Executes(i)
    /\ Current(i) \in {Opcode.MLOAD, Opcode.MSTORE, Opcode.MSTORE8}
    /\ Len(stack[i]) >= (IF Current(i) = Opcode.MLOAD THEN 1 ELSE 2)
    /\ state[i].gasRemaining >= 3

C37_Returned(i) ==
    LET offset == Number(stack[i][Len(stack[i])])
        length == IF Current(i) = Opcode.MSTORE8 THEN 1 ELSE 32
        a      == Len(state[i].memory) \div 32
        b      == (offset + length + 31) \div 32
        cost   == IF b > a THEN C37_C(b) - C37_C(a) ELSE 0
        left   == state[i].gasRemaining - 3
    IN  /\ Len(state'[i].memory) = (IF b > a THEN 32 * b ELSE Len(state[i].memory))
        /\ left >= cost => state'[i].gasRemaining = left - cost

C37_ExpansionCost ==
    [][\A i \in Interpreters : C37_Calls(i) => C37_Returned(i)]_vars


(***************************************************************************)
(* C38.  ADD, SUB, MUL and DIV with two items on the stack and the gas for *)
(* their charge (3, 3, 5 and 5) pop b (the top) and then a, push a + b,    *)
(* a - b and a * b reduced modulo 2^256 and floor(a / b), 0 when b = 0,    *)
(* and advance the program counter by 1.  The results are stated on the    *)
(* byte strings: the sum is the low 32 bytes of a + b, the difference is   *)
(* the word that added to b gives a, the product (for a factor below 256)  *)
(* is the low 32 bytes of the factor times the other word, and the         *)
(* quotient q (for a divisor below 256) has q * b <= a < q * b + b.        *)
(***************************************************************************)
C38_Low(bytes) == SubSeq(bytes, Len(bytes) - WORD_SIZE + 1, Len(bytes))

C38_Gas(opcode) == IF opcode \in {Opcode.ADD, Opcode.SUB} THEN 3 ELSE 5

C38_Sum(a, b, r) == r = C38_Low(BigAdd(a, b))

C38_Difference(a, b, r) == a = C38_Low(BigAdd(r, b))

C38_Product(a, b, r) ==
    IF Number(b) < 256 THEN r = C38_Low(BigMulSmall(a, Number(b)))
    ELSE r = C38_Low(BigMulSmall(b, Number(a)))

C38_Quotient(a, b, r) ==
    IF b = zero THEN r = zero
    ELSE LET below == <<0>> \o BigMulSmall(r, Number(b))
             above == BigAdd(BigMulSmall(r, Number(b)), <<0>> \o b)
         IN  /\ BigLeq(below, <<0, 0>> \o a)
             /\ ~BigLeq(above, <<0, 0>> \o a)

C38_Computes(i) ==
    /\ Executes(i)
    /\ Current(i) \in {Opcode.ADD, Opcode.SUB, Opcode.MUL, Opcode.DIV}
    /\ Len(stack[i]) >= 2
    /\ state[i].gasRemaining >= C38_Gas(Current(i))
    /\ Current(i) = Opcode.MUL =>
          \/ Number(stack[i][Len(stack[i])]) < 256
          \/ Number(stack[i][Len(stack[i]) - 1]) < 256
    /\ Current(i) = Opcode.DIV => Number(stack[i][Len(stack[i])]) < 256

C38_Computed(i) ==
    LET depth == Len(stack[i])
        b     == stack[i][depth]
        a     == stack[i][depth - 1]
        r     == stack'[i][depth - 1]
    IN  /\ Len(stack'[i]) = depth - 1
        /\ SubSeq(stack'[i], 1, depth - 2) = SubSeq(stack[i], 1, depth - 2)
        /\ Len(r) = WORD_SIZE
        /\ CASE Current(i) = Opcode.ADD -> C38_Sum(a, b, r)
             [] Current(i) = Opcode.SUB -> C38_Difference(a, b, r)
             [] Current(i) = Opcode.MUL -> C38_Product(a, b, r)
             [] Current(i) = Opcode.DIV -> C38_Quotient(a, b, r)
        /\ state'[i] = [state[i] EXCEPT !.gasRemaining = @ - C38_Gas(Current(i)),
                                        !.pc = @ + 1]
        /\ result'[i] = "true"

C38_ArithmeticModulo ==
    [][\A i \in Interpreters : C38_Computes(i) => C38_Computed(i)]_vars

\* 2^256 - 1 times 2, plus 3, minus 2, divided by 16: the DIV has pushed
\* 0x0fff..ff after the three results that wrapped.
C38_Witness ==
    \E i \in Interpreters :
        /\ Len(bytecode[i]) = 46
        /\ bytecode[i][1] = Opcode.PUSH32
        /\ bytecode[i][45] = Opcode.DIV
        /\ state[i].pc = 45
        /\ ~state[i].halted
        /\ stack[i] = << <<15>> \o Tup([k \in 1..(WORD_SIZE - 1) |-> 255], WORD_SIZE - 1) >>


(***************************************************************************)
(* C39.  CALLDATALOAD with an item on the stack and 3 gas pushes the word  *)
(* whose byte k (0..31) is the calldata byte at offset + k, and            *)
(* CALLDATACOPY, when it completes, leaves in memory at destOffset + k     *)
(* (k below length) the calldata byte at srcOffset + k and every other     *)
(* byte of the memory as it was (zero where the memory is new); in both a  *)
(* position at or beyond the calldata length reads as zero.  No step       *)
(* changes the calldata.                                                   *)
(***************************************************************************)
C39_Byte(data, position) ==
    IF position < Len(data) THEN data[position + 1] ELSE 0

C39_Loads(i) ==
    /\ Executes(i)
    /\ Current(i) = Opcode.CALLDATALOAD
    /\ Len(stack[i]) >= 1
    /\ state[i].gasRemaining >= 3

C39_Loaded(i) ==
    LET depth  == Len(stack[i])
        offset == Number(stack[i][depth])
        word   == stack'[i][depth]
    IN  /\ Len(stack'[i]) = depth
        /\ Len(word) = WORD_SIZE
        /\ \A k \in 0..(WORD_SIZE - 1) : word[k + 1] = C39_Byte(calldata[i], offset + k)
        /\ state'[i].pc = state[i].pc + 1

C39_Copies(i) ==
    /\ Executes(i)
    /\ Current(i) = Opcode.CALLDATACOPY
    /\ Len(stack[i]) >= 3
    /\ result'[i] = "true"

C39_Copied(i) ==
    LET depth      == Len(stack[i])
        destOffset == Number(stack[i][depth])
        srcOffset  == Number(stack[i][depth - 1])
        length     == Number(stack[i][depth - 2])
        before     == state[i].memory
        after      == state'[i].memory
    IN  /\ Len(after) >= Len(before)
        /\ length > 0 => Len(after) >= destOffset + length
        /\ \A p \in 0..(Len(after) - 1) :
              after[p + 1] =
                  IF p >= destOffset /\ p < destOffset + length
                  THEN C39_Byte(calldata[i], srcOffset + (p - destOffset))
                  ELSE C39_Byte(before, p)
        /\ state'[i].pc = state[i].pc + 1

C40_Held(h, key) ==
    IF <<AddressZero, key>> \in DOMAIN h.storage THEN h.storage[<<AddressZero, key>>]
    ELSE zero

C40_Cost(current, value) == IF current = zero /\ value # zero THEN 20000 ELSE 5000

C40_Loads(i) ==
    /\ Executes(i)
    /\ Current(i) = Opcode.SLOAD
    /\ Len(stack[i]) >= 1
    /\ state[i].gasRemaining >= 200

C40_Stores(i) ==
    /\ Executes(i)
    /\ Current(i) = Opcode.SSTORE
    /\ Len(stack[i]) >= 2
    /\ state[i].gasRemaining >=
          C40_Cost(C40_Held(host[1], stack[i][Len(stack[i])]), stack[i][Len(stack[i]) - 1])

C40_Stored(i) ==
    LET key   == stack[i][Len(stack[i])]
        value == stack[i][Len(stack[i]) - 1]
    IN  /\ state'[i].gasRemaining =
              state[i].gasRemaining - C40_Cost(C40_Held(host[1], key), value)
        /\ \A j \in Interpreters : C40_Held(host'[hostOf[j]], key) = value

C40_SharedHostDecides ==
    [][\A i \in Interpreters :
          /\ C40_Loads(i) =>
                stack'[i][Len(stack[i])] = C40_Held(host[1], stack[i][Len(stack[i])])
          /\ C40_Stores(i) => C40_Stored(i)]_vars

\* Interpreter 1 (PUSH1 42, PUSH1 0, SSTORE, PUSH1 0, SLOAD, STOP) stored
\* first, interpreter 2 stored its 9 before the SLOAD of interpreter 1.
C40_Witness ==
    /\ Interpreters = {1, 2}
    /\ hostOf[1] = hostOf[2]
    /\ bytecode[1] = <<96, 42, 96, 0, 85, 96, 0, 84, 0>>
    /\ initialGas[1] = 30000
    /\ state[1].halted /\ state[2].halted
    /\ alone(1).stack = <<fromNumber(42)>>
    /\ stack[1] = <<fromNumber(9)>>
    /\ trace[1] # alone(1).trace
    /\ state[2].gasRemaining = 30000 - 6 - 5000

====
